---- MODULE Spec2Model ----
(***************************************************************************)
(* Model of bot-bluesky-reliefs: the elevation acquisition layer           *)
(* (src/api/elevation.ts: tile cache, provider pacing and quota), the      *)
(* water detection cache (src/utils/water-detection.ts), the area          *)
(* validation and the candidate loop (src/generators/index.ts), the        *)
(* full-resolution fetch loop (src/generators/relief-generator.ts), the    *)
(* preparation of a render (src/generators/relief.ts and                   *)
(* src/generators/renderers/helpers/terrain.ts), the bounding box of an    *)
(* area and the reading of an elevation from a terrain tile.               *)
(*                                                                         *)
(* JavaScript runs every handler to its next await, so one action is one   *)
(* run-to-await segment of the code.  Time is in milliseconds.             *)
(***************************************************************************)
EXTENDS Integers, Sequences, FiniteSets, Bags

VARIABLES
    provider,           \* config.apis.elevation.provider.toLowerCase()
    apiKey,             \* config.apis.elevation.apiKey is set
    tileCache,          \* Map<string, CachedTile>, in insertion order
    lastRequestTime,    \* let lastRequestTime
    dailyRequestCount,  \* let dailyRequestCount
    now,                \* Date.now()
    calls,              \* the bag of fetchElevation calls that are outstanding
    started,            \* history: fetchElevation calls started so far
    sent,               \* history: times of the two latest OpenTopoData requests
    otdRequests,        \* history: HTTP requests sent to OpenTopoData
    returned,           \* history: the response fetchElevation returned last
    gen,                \* generateReliefFromCoordinate: its fetch loop
    genLog,             \* history: the fetches of the grid point in hand
    waterCache,         \* Map<string, boolean> waterCoordinatesCache, in insertion order
    waterCalls,         \* the bag of tile queries that are outstanding
    waterChecks,        \* history: checkCoordinateIsWater calls started so far
    waterLog,           \* history: the answer checkCoordinateIsWater returned last
    waterAnswered,      \* history: the answers given so far, by rounded coordinate
    rand,               \* generateRandomRelief: its candidate loop
    relief,             \* generateRelief: the data, the points, the terrain, the parameters
    box,                \* an area and the bounding box calculated for it
    tile,               \* a coordinate, the image of its tile and the elevation extracted
    render              \* a renderer, its points and options, and what it drew on the canvas

fetchVars == <<provider, apiKey, tileCache, lastRequestTime, dailyRequestCount, now,
               calls, started, sent, otdRequests, returned>>

genVars == <<gen, genLog>>

waterVars == <<waterCache, waterCalls, waterChecks, waterLog, waterAnswered>>

randVars == <<rand>>

reliefVars == <<relief>>

boxVars == <<box>>

tileVars == <<tile>>

renderVars == <<render>>

vars == <<fetchVars, genVars, waterVars, randVars, reliefVars, boxVars, tileVars,
          renderVars>>

\* what each layer leaves alone when it runs on its own
fetchFrame == <<genVars, waterVars, randVars, reliefVars, boxVars, tileVars, renderVars>>
genFrame == <<waterVars, randVars, reliefVars, boxVars, tileVars, renderVars>>
waterFrame == <<fetchVars, genVars, randVars, reliefVars, boxVars, tileVars, renderVars>>
randFrame == <<fetchVars, genVars, waterVars, reliefVars, boxVars, tileVars, renderVars>>
reliefFrame == <<fetchVars, genVars, waterVars, randVars, boxVars, tileVars, renderVars>>
boxFrame == <<fetchVars, genVars, waterVars, randVars, reliefVars, tileVars, renderVars>>
tileFrame == <<fetchVars, genVars, waterVars, randVars, reliefVars, boxVars, renderVars>>
renderFrame == <<fetchVars, genVars, waterVars, randVars, reliefVars, boxVars, tileVars>>

(***************************************************************************)
(* Program constants.                                                      *)
(***************************************************************************)
MAX_DAILY_REQUESTS == 1000
MAX_CACHE_SIZE == 1000
\* fetchFromOpenTopoData: the minimum spacing it waits for between requests
MIN_REQUEST_SPACING == 1000

(***************************************************************************)
(* Bounds of the model.                                                    *)
(***************************************************************************)
\* fetchElevation calls outstanding at the same time
MaxCalls == 2
\* the clock stops here
MaxTime == 2001
\* the clock of the behaviours that start from a full cache stops here
MaxCacheTime == 1001
\* an aged process has made all but Slack of the fetches that fill the
\* cache and use up the quota
Slack == 1
\* fetchElevation calls started in one behaviour
MaxFetches == 3
\* tiles stored beyond the size of the cache when it is filled from empty
FillExtra == 1
\* the largest grid resolution of a generation (the grid has resolution^2 points)
MaxResolution == 2
\* tile queries outstanding at the same time
MaxWaterCalls == 2
\* checkCoordinateIsWater calls in one behaviour
MaxWaterChecks == 3
\* candidates of generateRandomRelief in one behaviour
MaxCandidates == 2
\* elevations in the data of one relief
MaxPoints == 3
\* the width and the height of the image of a tile, in pixels, at most
MaxTileSide == 2
\* the clock of a generation stops here
MaxGenTime == 12001
\* points in the elevation data of one render
MaxDots == 3
\* the values a call of Math.random() is drawn from
MaxDraws == 2
\* renders of one relief in one behaviour
MaxRenders == 2

GridResolutions == 2 .. MaxResolution

\* consecutive grid points that share a tile
TilePointChoices == {1, 2}

Providers == {"opentopodata", "mapbox", "other"}

\* the providers fetchElevation knows
KnownProviders == {"opentopodata", "mapbox"}

\* amounts of time that pass in one step of the clock
TickSteps == {500, 1000}

\* successful fetches of distinct tiles an aged process has made
AgedFetches == MAX_CACHE_SIZE - Slack

\* tiles the calls ask for: the oldest one and tiles not yet seen
KeyChoices == {1} \cup ((AgedFetches + 1) .. (AgedFetches + Slack + 1))

\* what the provider's HTTP endpoint can answer
HttpOutcomes ==
    IF provider = "opentopodata" THEN {"ok", "empty", "429", "500"}
    ELSE {"ok", "429", "500"}

\* tiles asked for where the cache is small
FewKeys == {1, 2}

(***************************************************************************)
(* The tile cache: a JavaScript Map keeps its keys in insertion order and  *)
(* set() on a key that is present replaces the value in place.             *)
(***************************************************************************)
Keys(cache) == {cache[i].key : i \in DOMAIN cache}

MapHas(cache, k) == k \in Keys(cache)

MapGet(cache, k) == (CHOOSE i \in DOMAIN cache : cache[i].key = k)

MapSet(cache, k, t) ==
    IF MapHas(cache, k)
    THEN [i \in DOMAIN cache |->
            IF cache[i].key = k THEN [key |-> k, tile |-> t] ELSE cache[i]]
    ELSE Append(cache, [key |-> k, tile |-> t])

\* tileCache.delete(tileCache.keys().next().value)
DeleteOldest(cache) == IF cache = <<>> THEN cache ELSE Tail(cache)

\* mutant: the size test lets the cache grow one entry too far
cacheTileDataOffByOne(cache, tileKey) ==
    MapSet(IF Len(cache) > MAX_CACHE_SIZE THEN DeleteOldest(cache) ELSE cache,
           tileKey, "placeholder")

\* cacheTileData: the placeholder tile stored for the other providers
cacheTileData(cache, tileKey) ==
    MapSet(IF Len(cache) >= MAX_CACHE_SIZE THEN DeleteOldest(cache) ELSE cache,
           tileKey, "placeholder")

\* mutant: the eviction removes the newest entry instead of the oldest
mapboxCacheTileEvictNewest(cache, tileKey) ==
    MapSet(IF Len(cache) >= MAX_CACHE_SIZE
           THEN SubSeq(cache, 1, Len(cache) - 1) ELSE cache,
           tileKey, "png")

\* fetchFromMapbox: the decoded PNG stored under the tile key
mapboxCacheTile(cache, tileKey) ==
    MapSet(IF Len(cache) >= MAX_CACHE_SIZE THEN DeleteOldest(cache) ELSE cache,
           tileKey, "png")

\* extractElevationFromTile on a cached tile: the placeholder has an empty
\* pixel buffer, every sample is NaN and the extraction throws
CachedTileDecodes(cache, k) == cache[MapGet(cache, k)].tile = "png"

\* the cache after n successful fetches of the tiles 1..n, one after another
Prefilled(n, t) == [i \in 1 .. n |-> [key |-> i, tile |-> t]]

(***************************************************************************)
(* Responses of fetchElevation.                                            *)
(***************************************************************************)
Response(st, n, rl, fc) ==
    [status |-> st, dataLen |-> n, rateLimited |-> rl, fromCache |-> fc]

NoResponse == [http |-> "none", requested |-> FALSE, resp |-> Response("none", 0, FALSE, FALSE)]

Returned(http, req, resp) == [http |-> http, requested |-> req, resp |-> resp]

\* a call suspended in await delay(waitTime) or in await fetch(url)
Waiting(k, t) == [pc |-> "waiting", key |-> k, wake |-> t]
Inflight(k) == [pc |-> "inflight", key |-> k, wake |-> 0]

(***************************************************************************)
(* fetchElevation.  A call runs from its start to its first await          *)
(* (StartFetch), from the end of its pacing delay to the HTTP request      *)
(* (WakeCall) and from the HTTP answer to its return (CompleteFetch).      *)
(***************************************************************************)
Return(http, req, resp) == returned' = Returned(http, req, resp)

Suspend(call) == calls' = calls (+) SetToBag({call})

Resume(call, next) == calls' = (calls (-) SetToBag({call})) (+) next

\* lastRequestTime = Date.now(); dailyRequestCount++; await fetch(url)
SendOpenTopoData ==
    /\ lastRequestTime' = now
    /\ dailyRequestCount' = dailyRequestCount + 1
    /\ sent' = IF Len(sent) < 2 THEN Append(sent, now) ELSE <<sent[2], now>>
    /\ otdRequests' = otdRequests + 1

\* the pacing test of fetchFromOpenTopoData
MustWait == now - lastRequestTime < MIN_REQUEST_SPACING /\ lastRequestTime > 0

\* the quota test of fetchFromOpenTopoData
QuotaExhausted == dailyRequestCount >= MAX_DAILY_REQUESTS

StartOpenTopoData(k) ==
    IF QuotaExhausted
    THEN /\ Return("none", FALSE, Response("error", 0, TRUE, FALSE))
         /\ UNCHANGED <<lastRequestTime, dailyRequestCount, calls, sent, otdRequests>>
    ELSE IF MustWait
    THEN /\ Suspend(Waiting(k, now + (MIN_REQUEST_SPACING - (now - lastRequestTime))))
         /\ UNCHANGED <<lastRequestTime, dailyRequestCount, sent, otdRequests, returned>>
    ELSE /\ SendOpenTopoData
         /\ Suspend(Inflight(k))
         /\ UNCHANGED returned

StartMapbox(k) ==
    /\ lastRequestTime' = now
    /\ IF ~apiKey
       THEN /\ Return("none", FALSE, Response("error", 0, FALSE, FALSE))
            /\ UNCHANGED calls
       ELSE /\ Suspend(Inflight(k))
            /\ UNCHANGED returned
    /\ UNCHANGED <<dailyRequestCount, sent, otdRequests>>

StartFetch(k) ==
    /\ started' = started + 1
    /\ IF MapHas(tileCache, k) /\ CachedTileDecodes(tileCache, k)
       THEN /\ Return("none", FALSE, Response("success", 1, FALSE, TRUE))
            /\ UNCHANGED <<lastRequestTime, dailyRequestCount, calls, sent, otdRequests>>
       ELSE IF provider = "opentopodata" THEN StartOpenTopoData(k)
       ELSE IF provider = "mapbox" THEN StartMapbox(k)
       ELSE /\ Return("none", FALSE, Response("error", 0, FALSE, FALSE))
            /\ UNCHANGED <<lastRequestTime, dailyRequestCount, calls, sent, otdRequests>>
    /\ UNCHANGED <<provider, apiKey, tileCache, now>>

\* await delay(waitTime) is over
WakeCall(call) ==
    /\ call.pc = "waiting"
    /\ now >= call.wake
    /\ SendOpenTopoData
    /\ Resume(call, SetToBag({Inflight(call.key)}))
    /\ UNCHANGED <<provider, apiKey, tileCache, now, started, returned>>

\* fetchFromOpenTopoData from the HTTP answer on
OpenTopoDataResponse(http) ==
    IF http = "429" THEN Response("error", 0, TRUE, FALSE)
    ELSE IF http = "ok" THEN Response("success", 1, FALSE, FALSE)
    ELSE IF http = "empty" THEN Response("success", 0, FALSE, FALSE)
    ELSE Response("error", 0, FALSE, FALSE)

\* mutant: a failure thrown in fetchFromMapbox is caught nowhere and the
\* call rejects
MapboxResponseUncaught(http) ==
    IF http = "ok" THEN Response("success", 1, FALSE, FALSE)
    ELSE Response("rejected", 0, FALSE, FALSE)

\* fetchFromMapbox from the HTTP answer on: every failure is thrown and
\* caught by the one catch block
MapboxResponse(http) ==
    IF http = "ok" THEN Response("success", 1, FALSE, FALSE)
    ELSE Response("error", 0, FALSE, FALSE)

\* the answer arrives: the provider's handler, then the caching step of
\* fetchElevation
CompleteFetch(call, http) ==
    /\ call.pc = "inflight"
    /\ LET resp == IF provider = "opentopodata"
                   THEN OpenTopoDataResponse(http) ELSE MapboxResponse(http)
       IN /\ Return(http, TRUE, resp)
          /\ tileCache' =
               IF provider = "opentopodata"
               THEN IF resp.status = "success" /\ resp.dataLen > 0 /\ ~resp.fromCache
                    THEN cacheTileData(tileCache, call.key) ELSE tileCache
               ELSE IF http = "ok" THEN mapboxCacheTile(tileCache, call.key)
               ELSE tileCache
    /\ Resume(call, EmptyBag)
    /\ UNCHANGED <<provider, apiKey, lastRequestTime, dailyRequestCount, now,
                   started, sent, otdRequests>>

Tick(d, horizon) ==
    /\ now + d <= horizon
    /\ now' = now + d
    /\ UNCHANGED <<provider, apiKey, tileCache, lastRequestTime, dailyRequestCount,
                   calls, started, sent, otdRequests, returned>>

(***************************************************************************)
(* generateReliefFromCoordinate: the loop that fetches the full-resolution *)
(* grid.  gen.i is the loop index, gen.attempts and gen.wasFromCache the   *)
(* locals of one iteration, gen.collected is elevationData.length.         *)
(***************************************************************************)
\* const maxAttempts = 2
maxAttempts == 2
\* await delay(2000) before a retry
RETRY_DELAY == 2000
\* await delay(1000) between two coordinates
COORDINATE_DELAY == 1000
\* await delay(5000) after a rate-limited response
RATE_LIMIT_DELAY == 5000
\* if (elevationData.length < 3) throw
MIN_ELEVATION_POINTS == 3

IdleGen == [pc |-> "idle", i |-> 0, attempts |-> 0, wasFromCache |-> FALSE,
            wake |-> 0, collected |-> 0, resolution |-> 0, tilePoints |-> 1]

NoLog == [fetches |-> 0, cause |-> "none", waited |-> 0, lastResp |-> "none",
          respAt |-> 0, startAt |-> 0, doneAt |-> 0, overlap |-> 0]

\* grid.length, for generateCoordinateGrid(area, resolution)
GridLength(g) == g.resolution * g.resolution

\* the tile of grid[i]: tilePoints consecutive points of the (sorted) grid
\* lie in one tile
TileOf(g) == 1 + (g.i \div g.tilePoints)

\* the response as the loop's if-chain sees it
Kind(resp) ==
    IF resp.status = "success" /\ resp.dataLen > 0 THEN "success"
    ELSE IF resp.rateLimited THEN "rateLimited"
    ELSE "error"

\* mutant: every failed response is retried like a rate-limited one
OnResponseRetryAll(resp) ==
    IF Kind(resp) = "success" THEN "collect" ELSE "backoff"

\* what the loop does with a response: lines 101-121
OnResponse(resp) ==
    IF Kind(resp) = "success" THEN "collect"
    ELSE IF Kind(resp) = "rateLimited" THEN "backoff"
    ELSE "skip"

\* mutant: the test on the provider is inverted
DelayBeforeAttemptInverted(g) ==
    IF g.attempts > 0 THEN RETRY_DELAY
    ELSE IF g.i > 0 /\ ~g.wasFromCache
    THEN IF provider = "mapbox" THEN COORDINATE_DELAY ELSE 0
    ELSE 0

\* the delay at the top of the try block: lines 87-96
DelayBeforeAttempt(g) ==
    IF g.attempts > 0 THEN RETRY_DELAY
    ELSE IF g.i > 0 /\ ~g.wasFromCache
    THEN IF provider # "mapbox" THEN COORDINATE_DELAY ELSE 0
    ELSE 0

\* fetchElevation(coord.latitude, coord.longitude, config) is called
GenFetch(g) ==
    /\ StartFetch(TileOf(g))
    /\ gen' = [g EXCEPT !.pc = "await", !.wake = 0]
    /\ genLog' = [genLog EXCEPT !.fetches = @ + 1, !.cause = genLog.lastResp,
                                !.waited = now - genLog.respAt, !.startAt = now,
                                !.overlap = BagCardinality(calls)]

\* the loop from the test of the for and while conditions to its next await
Proceed(g, log) ==
    IF g.i >= GridLength(g)
    THEN /\ gen' = [g EXCEPT !.pc = IF g.collected < MIN_ELEVATION_POINTS
                                    THEN "threw" ELSE "render"]
         /\ genLog' = log
         /\ UNCHANGED fetchVars
    ELSE IF DelayBeforeAttempt(g) > 0
    THEN /\ gen' = [g EXCEPT !.pc = "delay", !.wake = now + DelayBeforeAttempt(g)]
         /\ genLog' = log
         /\ UNCHANGED fetchVars
    ELSE /\ StartFetch(TileOf(g))
         /\ gen' = [g EXCEPT !.pc = "await", !.wake = 0]
         /\ genLog' = [log EXCEPT !.fetches = @ + 1, !.cause = log.lastResp,
                                  !.waited = now - log.respAt, !.startAt = now,
                                  !.overlap = BagCardinality(calls)]

\* the next iteration of the for loop: its locals are declared anew
NextPoint(g) == [g EXCEPT !.i = @ + 1, !.attempts = 0, !.wasFromCache = FALSE]

NextPointLog(log) == [log EXCEPT !.fetches = 0, !.lastResp = "none", !.doneAt = now]

\* while (!success && attempts < maxAttempts)
Again(g, log) ==
    IF g.attempts < maxAttempts THEN Proceed(g, log)
    ELSE Proceed(NextPoint(g), NextPointLog(log))

GenStart(res, tp) ==
    /\ gen.pc = "idle"
    /\ Proceed([IdleGen EXCEPT !.resolution = res, !.tilePoints = tp], NoLog)

\* await delay(2000) or await delay(1000) is over
GenDelayDone ==
    /\ gen.pc = "delay"
    /\ now >= gen.wake
    /\ GenFetch(gen)

\* mutant: the loop goes on without awaiting the response
FetchNotAwaited == TRUE

\* await fetchElevation(...) has its response
FetchReturned == calls = EmptyBag

GenHandle ==
    /\ gen.pc = "await"
    /\ FetchReturned
    /\ LET resp == returned.resp
           g == [gen EXCEPT !.wasFromCache = resp.fromCache]
           log == [genLog EXCEPT !.lastResp = Kind(resp), !.respAt = now]
       IN IF OnResponse(resp) = "collect"
          THEN Proceed(NextPoint([g EXCEPT !.collected = @ + resp.dataLen]),
                       NextPointLog(log))
          ELSE IF OnResponse(resp) = "backoff"
          THEN /\ gen' = [g EXCEPT !.pc = "backoff", !.wake = now + RATE_LIMIT_DELAY]
               /\ genLog' = log
               /\ UNCHANGED fetchVars
          ELSE Proceed(NextPoint(g), NextPointLog(log))

\* await delay(5000) is over: attempts++
GenBackoffDone ==
    /\ gen.pc = "backoff"
    /\ now >= gen.wake
    /\ Again([gen EXCEPT !.attempts = @ + 1, !.wake = 0], genLog)

GenIdle == gen = IdleGen /\ genLog = NoLog

(***************************************************************************)
(* Water detection (src/utils/water-detection.ts).  Coordinates are in     *)
(* millionths of a degree: roundCoordinate keeps six decimals.  A call of  *)
(* checkCoordinateIsWater runs to its return, or for the mapbox provider   *)
(* to the await of the tile query; the query has two awaits, fetch(url)    *)
(* and response.json().                                                    *)
(***************************************************************************)
\* const MAX_WATER_CACHE_SIZE = 1000
MAX_WATER_CACHE_SIZE == 1000

\* one degree, in the unit of the coordinates
DEGREE == 1000000

\* const landMasses, in degrees
landMasses == <<
    [minLat |-> 15, maxLat |-> 72, minLon |-> -170, maxLon |-> -50],
    [minLat |-> 7, maxLat |-> 33, minLon |-> -120, maxLon |-> -60],
    [minLat |-> -60, maxLat |-> 15, minLon |-> -90, maxLon |-> -30],
    [minLat |-> 36, maxLat |-> 70, minLon |-> -10, maxLon |-> 40],
    [minLat |-> -40, maxLat |-> 36, minLon |-> -20, maxLon |-> 55],
    [minLat |-> 0, maxLat |-> 80, minLon |-> 40, maxLon |-> 180],
    [minLat |-> -50, maxLat |-> -10, minLon |-> 110, maxLon |-> 155],
    [minLat |-> -50, maxLat |-> -30, minLon |-> 165, maxLon |-> 180],
    [minLat |-> 30, maxLat |-> 46, minLon |-> 128, maxLon |-> 146],
    [minLat |-> 50, maxLat |-> 60, minLon |-> -11, maxLon |-> 2],
    [minLat |-> -11, maxLat |-> 20, minLon |-> 95, maxLon |-> 141],
    [minLat |-> 5, maxLat |-> 20, minLon |-> 115, maxLon |-> 127],
    [minLat |-> 10, maxLat |-> 25, minLon |-> -85, maxLon |-> -60],
    [minLat |-> 18, maxLat |-> 23, minLon |-> -160, maxLon |-> -154],
    [minLat |-> 63, maxLat |-> 67, minLon |-> -24, maxLon |-> -13],
    [minLat |-> -26, maxLat |-> -12, minLon |-> 43, maxLon |-> 51],
    [minLat |-> 60, maxLat |-> 84, minLon |-> -74, maxLon |-> -11],
    [minLat |-> 5, maxLat |-> 10, minLon |-> 79, maxLon |-> 82],
    [minLat |-> 22, maxLat |-> 25, minLon |-> 120, maxLon |-> 122] >>

isCoordinateOnLand(c) ==
    \E i \in DOMAIN landMasses :
        /\ c.latitude >= landMasses[i].minLat * DEGREE
        /\ c.latitude <= landMasses[i].maxLat * DEGREE
        /\ c.longitude >= landMasses[i].minLon * DEGREE
        /\ c.longitude <= landMasses[i].maxLon * DEGREE

Coordinate(lat, lon) == [latitude |-> lat, longitude |-> lon]

\* the coordinates checked: inland, mid-ocean, the two sides of the northern
\* edge of a land-mass box (one key), and just south and just north of the
\* equator
WaterCoords ==
    { Coordinate(48856610, 2352220), Coordinate(0, -140000000),
      Coordinate(72000000, -100000000), Coordinate(72000001, -100000000),
      Coordinate(-30, 10000000), Coordinate(30, 10000000) }

\* x.toFixed(4): the sign of x and its digits, rounded to ten-thousandths.
\* No coordinate of the model lies halfway between two of them.
toFixed4(x) ==
    LET a == IF x < 0 THEN -x ELSE x
    IN [minus |-> x < 0, digits |-> (a + 50) \div 100]

\* x rounded to 4 decimals as a number, in ten-thousandths: -0 is 0
Round4(x) == IF x < 0 THEN 0 - ((50 - x) \div 100) ELSE (x + 50) \div 100

RoundedCoord(c) == <<Round4(c.latitude), Round4(c.longitude)>>

\* `${latitude.toFixed(4)},${longitude.toFixed(4)}`
coordKey(c) == <<toFixed4(c.latitude), toFixed4(c.longitude)>>

WaterHas(cache, k) == \E i \in DOMAIN cache : cache[i].key = k

WaterGet(cache, k) == cache[CHOOSE i \in DOMAIN cache : cache[i].key = k].isWater

\* mutant: the size test lets the cache grow one entry too far
cacheWaterResultOffByOne(cache, k, w) ==
    LET kept == IF Len(cache) > MAX_WATER_CACHE_SIZE THEN Tail(cache) ELSE cache
    IN IF WaterHas(kept, k)
       THEN [i \in DOMAIN kept |->
               IF kept[i].key = k THEN [key |-> k, isWater |-> w] ELSE kept[i]]
       ELSE Append(kept, [key |-> k, isWater |-> w])

cacheWaterResult(cache, k, w) ==
    LET kept == IF Len(cache) >= MAX_WATER_CACHE_SIZE THEN Tail(cache) ELSE cache
    IN IF WaterHas(kept, k)
       THEN [i \in DOMAIN kept |->
               IF kept[i].key = k THEN [key |-> k, isWater |-> w] ELSE kept[i]]
       ELSE Append(kept, [key |-> k, isWater |-> w])

\* WaterDetectionResult; the confidence is in hundredths
WaterDetectionResult(w, m, conf) == [isWater |-> w, method |-> m, confidence |-> conf]

NoWaterLog ==
    [coord |-> Coordinate(0, 0), hadKey |-> FALSE, onLand |-> FALSE,
     prior |-> {}, queried |-> FALSE, answered |-> FALSE,
     result |-> WaterDetectionResult(FALSE, "none", 0)]

WaterIdle ==
    /\ waterCache = <<>>
    /\ waterCalls = EmptyBag
    /\ waterChecks = 0
    /\ waterLog = NoWaterLog
    /\ waterAnswered = {}

\* what the call was given when it started, for the history
WaterCall(c, stage) ==
    [coord |-> c, stage |-> stage, hadKey |-> WaterHas(waterCache, coordKey(c)),
     onLand |-> isCoordinateOnLand(c),
     prior |-> {a.isWater : a \in {b \in waterAnswered : b.at = RoundedCoord(c)}}]

WaterReturn(call, queried, answered, result) ==
    /\ waterLog' = [coord |-> call.coord, hadKey |-> call.hadKey,
                    onLand |-> call.onLand, prior |-> call.prior,
                    queried |-> queried, answered |-> answered, result |-> result]
    /\ waterAnswered' = waterAnswered \cup
          {[at |-> RoundedCoord(call.coord), isWater |-> result.isWater]}

\* mutant: the land-mass test comes before the cache lookup
FirstStepLandFirst(cache, c) ==
    IF ~isCoordinateOnLand(c) THEN "land-bounds"
    ELSE IF WaterHas(cache, coordKey(c)) THEN "cache"
    ELSE IF provider = "mapbox" THEN "tilequery"
    ELSE "default-land"

\* the branch checkCoordinateIsWater takes before any await
FirstStep(cache, c) ==
    IF WaterHas(cache, coordKey(c)) THEN "cache"
    ELSE IF ~isCoordinateOnLand(c) THEN "land-bounds"
    ELSE IF provider = "mapbox" THEN "tilequery"
    ELSE "default-land"

\* lines 57-59: cacheWaterResult(coordKey, false) and the default answer
DefaultLand(call, queried) ==
    /\ waterCache' = cacheWaterResult(waterCache, coordKey(call.coord), FALSE)
    /\ WaterReturn(call, queried, FALSE, WaterDetectionResult(FALSE, "default-land", 70))

\* checkCoordinateIsWater(latitude, longitude, config) from its call to its
\* return or to await checkCoordinateIsWaterWithTilequery(...)
checkCoordinateIsWater(c) ==
    LET step == FirstStep(waterCache, c)
        call == WaterCall(c, "none")
    IN /\ waterChecks' = waterChecks + 1
       /\ IF step = "cache"
          THEN /\ WaterReturn(call, FALSE, FALSE,
                     WaterDetectionResult(WaterGet(waterCache, coordKey(c)), "cache", 95))
               /\ UNCHANGED <<waterCache, waterCalls>>
          ELSE IF step = "land-bounds"
          THEN /\ waterCache' = cacheWaterResult(waterCache, coordKey(c), TRUE)
               /\ WaterReturn(call, FALSE, FALSE,
                     WaterDetectionResult(TRUE, "land-bounds", 90))
               /\ UNCHANGED waterCalls
          ELSE IF step = "tilequery"
          THEN /\ waterCalls' = waterCalls (+)
                     SetToBag({WaterCall(c, IF apiKey THEN "fetch" ELSE "rejected")})
               /\ UNCHANGED <<waterCache, waterLog, waterAnswered>>
          ELSE /\ DefaultLand(call, FALSE)
               /\ UNCHANGED waterCalls

\* the answers of the Tilequery API to fetch(url)
TilequeryStatuses == {"ok", "429", "500", "network"}

\* the bodies response.json() finds: features, no feature, or no JSON
TilequeryBodies == {"features", "empty", "invalid"}

\* await fetch(url) is over: !response.ok and a network error throw
TilequeryResponse(call, http) ==
    /\ call.stage = "fetch"
    /\ waterCalls' = (waterCalls (-) SetToBag({call})) (+)
          (IF http = "ok" THEN SetToBag({[call EXCEPT !.stage = "json"]}) ELSE EmptyBag)
    /\ IF http = "ok"
       THEN UNCHANGED <<waterCache, waterLog, waterAnswered>>
       ELSE DefaultLand(call, TRUE)
    /\ UNCHANGED waterChecks

\* await response.json() is over: data.features && data.features.length > 0
TilequeryJson(call, body) ==
    /\ call.stage = "json"
    /\ waterCalls' = waterCalls (-) SetToBag({call})
    /\ IF body = "invalid"
       THEN DefaultLand(call, TRUE)
       ELSE /\ waterCache' = cacheWaterResult(waterCache, coordKey(call.coord),
                                              body = "features")
            /\ WaterReturn(call, TRUE, TRUE,
                  WaterDetectionResult(body = "features", "tilequery", 95))
    /\ UNCHANGED waterChecks

\* if (!apiKey) throw: the await of the rejected promise throws into catch
TilequeryRejected(call) ==
    /\ call.stage = "rejected"
    /\ waterCalls' = waterCalls (-) SetToBag({call})
    /\ DefaultLand(call, FALSE)
    /\ UNCHANGED waterChecks

(***************************************************************************)
(* The candidate loop (src/generators/index.ts).  validateAreaForRelief    *)
(* awaits the 16 sampled points together and then the check of the        *)
(* center; what the checks and the fetches answer is the input here.       *)
(***************************************************************************)
\* generateCoordinateGrid(sampleArea, 4)
SAMPLE_RESOLUTION == 4

\* if (waterPercentage > 85)
MAX_WATER_PERCENTAGE == 85

\* if (validElevations.length < 3)
MIN_VALID_ELEVATIONS == 3

\* config.geographic.minElevationRange
minElevationRange == 80

SampleCount == SAMPLE_RESOLUTION * SAMPLE_RESOLUTION

\* elevations a sampled point can have, in metres
ElevationChoices == {-40, 39, 40}

Elevation(kind, n) == [kind |-> kind, value |-> n]

\* the results of Promise.all for w water points and v points with an
\* elevation: the others have no data[0], a failed response or a null
SampleResults(w, v, e1, e2) ==
    [i \in 1 .. SampleCount |->
        [isWater |-> i <= w,
         elevation |->
            IF i > SampleCount - v
            THEN Elevation("number", IF i % 2 = 1 THEN e1 ELSE e2)
            ELSE Elevation(IF i % 3 = 0 THEN "null"
                           ELSE IF i % 3 = 1 THEN "undefined" ELSE "failed", 0)]]

waterPointCount(results) == Cardinality({i \in DOMAIN results : results[i].isWater})

\* results.map(r => r.elevationData?.elevation).filter(e => e !== null && e !== undefined)
validElevations(results) ==
    LET numbers == SelectSeq(results, LAMBDA r : r.elevation.kind = "number")
    IN [i \in DOMAIN numbers |-> numbers[i].elevation.value]

SeqMin(s) == CHOOSE x \in {s[i] : i \in DOMAIN s} : \A i \in DOMAIN s : x <= s[i]

SeqMax(s) == CHOOSE x \in {s[i] : i \in DOMAIN s} : \A i \in DOMAIN s : x >= s[i]

Validation(ok, why) == [isValid |-> ok, reason |-> why]

\* mutant: the check of the center is left out
validateAreaIgnoringCenter(results, centerIsWater) ==
    IF waterPointCount(results) * 100 > MAX_WATER_PERCENTAGE * Len(results)
    THEN Validation(FALSE, "mostly water")
    ELSE IF Len(validElevations(results)) < MIN_VALID_ELEVATIONS
    THEN Validation(FALSE, "elevation points")
    ELSE IF SeqMax(validElevations(results)) - SeqMin(validElevations(results))
               < minElevationRange
    THEN Validation(FALSE, "elevation range")
    ELSE Validation(TRUE, "none")

\* validateAreaForRelief from the results of the samples on: lines 100-152.
\* (count / length) * 100 > 85 is exact for a length of 16
validateAreaForRelief(results, centerIsWater) ==
    IF centerIsWater
    THEN Validation(FALSE, "center")
    ELSE IF waterPointCount(results) * 100 > MAX_WATER_PERCENTAGE * Len(results)
    THEN Validation(FALSE, "mostly water")
    ELSE IF Len(validElevations(results)) < MIN_VALID_ELEVATIONS
    THEN Validation(FALSE, "elevation points")
    ELSE IF SeqMax(validElevations(results)) - SeqMin(validElevations(results))
               < minElevationRange
    THEN Validation(FALSE, "elevation range")
    ELSE Validation(TRUE, "none")

NoInput == [w |-> 0, v |-> 0, e1 |-> 0, e2 |-> 0, center |-> FALSE]

IdleRand ==
    [pc |-> "idle", tried |-> 0, rejected |-> 0, results |-> <<>>,
     input |-> NoInput, decided |-> FALSE, decision |-> Validation(FALSE, "none"),
     error |-> <<>>]

RandIdle == rand = IdleRand

\* error.message.includes(part), on messages as sequences of words
Includes(message, part) ==
    \E i \in 1 .. (Len(message) - Len(part) + 1) :
        SubSeq(message, i, i + Len(part) - 1) = part

\* what generateReliefFromCoordinate ends with: a result or one of its errors
GenerationOutcomes ==
    { <<>>,
      <<"Not", "enough", "elevation", "data", "points", "collected.">>,
      <<"Cannot", "read", "properties", "of", "undefined">>,
      <<"Failed", "to", "save", "canvas", "to", "file">> }

\* generateRandomRelief(config, style) is entered: generateRandomCoordinate,
\* then validateAreaForRelief to its await Promise.all
Candidate(r) ==
    [r EXCEPT !.pc = "sampling", !.tried = @ + 1, !.results = <<>>]

\* mutant: the second rejection is raised as an error
AfterRejectionGiveUp(r) ==
    IF r.rejected >= 2
    THEN [r EXCEPT !.pc = "threw", !.error = <<"no", "valid", "location">>]
    ELSE Candidate(r)

\* if (!areaValidation.isValid) return generateRandomRelief(config, style)
AfterRejection(r) == Candidate(r)

RandStart ==
    /\ rand.pc = "idle"
    /\ rand' = Candidate(rand)

\* await Promise.all(sampleGrid.map(...)) is over; the check of the center
\* is awaited next
SamplingDone(w, v, e1, e2) ==
    /\ rand.pc = "sampling"
    /\ rand' = [rand EXCEPT !.pc = "center",
                            !.results = SampleResults(w, v, e1, e2),
                            !.input = [w |-> w, v |-> v, e1 |-> e1, e2 |-> e2,
                                       center |-> FALSE],
                            !.decided = FALSE]

\* await checkCoordinateIsWater(center) is over: validateAreaForRelief
\* returns its verdict
CenterDone(centerIsWater) ==
    /\ rand.pc = "center"
    /\ rand' = [rand EXCEPT !.pc = "validated",
                            !.decision = validateAreaForRelief(rand.results, centerIsWater),
                            !.decided = TRUE,
                            !.input.center = centerIsWater,
                            !.results = <<>>]

\* await validateAreaForRelief(centerCoord, config) is over:
\* generateRandomRelief goes on to its next await
AreaValidated ==
    /\ rand.pc = "validated"
    /\ LET r == [rand EXCEPT !.input = NoInput, !.decided = FALSE]
       IN rand' = IF rand.decision.isValid
                  THEN [r EXCEPT !.pc = "generating"]
                  ELSE AfterRejection([r EXCEPT !.rejected = @ + 1])

\* mutant: an error about the elevation points also starts a new candidate
GenerationDoneRetrying(outcome) ==
    /\ rand.pc = "generating"
    /\ rand' = IF outcome = <<>>
               THEN [rand EXCEPT !.pc = "returned"]
               ELSE IF Includes(outcome, <<"mostly", "water">>)
                       \/ Includes(outcome, <<"elevation", "data", "points">>)
               THEN Candidate(rand)
               ELSE [rand EXCEPT !.pc = "threw", !.error = outcome]

\* await generateReliefFromCoordinate(centerCoord, config, style, undefined, true)
\* is over
GenerationDone(outcome) ==
    /\ rand.pc = "generating"
    /\ rand' = IF outcome = <<>>
               THEN [rand EXCEPT !.pc = "returned"]
               ELSE IF Includes(outcome, <<"mostly", "water">>)
               THEN Candidate(rand)
               ELSE [rand EXCEPT !.pc = "threw", !.error = outcome]

(***************************************************************************)
(* Rendering preparation: processElevationData (src/generators/relief.ts),  *)
(* analyzeTerrain and getTerrainRenderParams                               *)
(* (src/generators/renderers/helpers/terrain.ts).  Elevations are whole    *)
(* metres; a quotient is kept as a fraction, so that it is compared as     *)
(* the floating-point quotient compares.                                   *)
(***************************************************************************)
\* elevations of the samples, in metres
ElevationSamples == {-30, -1, 0, 120, 200, 770, 1000, 4300}

Styles == {"perspective", "dotgrid"}

Fraction(n, d) == [num |-> n, den |-> d]

\* a JavaScript number: a whole number, Number.MIN_VALUE (5e-324, the
\* smallest number above 0) or Number.MAX_VALUE
Whole(n) == [kind |-> "whole", value |-> n]

NUMBER_MIN_VALUE == [kind |-> "tiny", value |-> 0]

NUMBER_MAX_VALUE == [kind |-> "huge", value |-> 0]

\* Math.min(a, e) and Math.max(a, e) for a whole number e
MathMin(a, e) ==
    IF a.kind = "huge" THEN Whole(e)
    ELSE IF a.kind = "tiny" THEN (IF e <= 0 THEN Whole(e) ELSE a)
    ELSE IF e < a.value THEN Whole(e) ELSE a

MathMax(a, e) ==
    IF a.kind = "huge" THEN a
    ELSE IF a.kind = "tiny" THEN (IF e > 0 THEN Whole(e) ELSE a)
    ELSE IF e > a.value THEN Whole(e) ELSE a

RECURSIVE MinOver(_, _)
\* for (const point of dataArray) minElevation = Math.min(minElevation, point.elevation)
MinOver(acc, s) == IF s = <<>> THEN acc ELSE MinOver(MathMin(acc, Head(s)), Tail(s))

RECURSIVE MaxOver(_, _)
\* for (const point of dataArray) maxElevation = Math.max(maxElevation, point.elevation)
MaxOver(acc, s) == IF s = <<>> THEN acc ELSE MaxOver(MathMax(acc, Head(s)), Tail(s))

\* let minElevation = Number.MAX_VALUE, and the loop
minElevation(data) == MinOver(NUMBER_MAX_VALUE, data)

\* let maxElevation = Number.MIN_VALUE, and the loop
maxElevation(data) == MaxOver(NUMBER_MIN_VALUE, data)

\* maxElevation - minElevation for a non-empty array: 5e-324 - m is -m in
\* floating point unless m is 0
elevationRange(data) ==
    LET lo == minElevation(data).value
        hi == maxElevation(data)
    IN IF hi.kind = "tiny"
       THEN (IF lo = 0 THEN NUMBER_MIN_VALUE ELSE Whole(0 - lo))
       ELSE Whole(hi.value - lo)

\* mutant: the quotient is taken over the maximum, not over the range
normalizedElevationOverMax(data, e) ==
    LET range == elevationRange(data)
    IN IF range.kind = "tiny" THEN Fraction(0, 1)
       ELSE IF range.value > 0
       THEN Fraction(e - minElevation(data).value, maxElevation(data).value)
       ELSE Fraction(1, 2)

\* elevationRange > 0 ? (point.elevation - minElevation) / elevationRange : 0.5
normalizedElevation(data, e) ==
    LET range == elevationRange(data)
    IN IF range.kind = "tiny"
       THEN Fraction(0, 1)     \* 0 / 5e-324: every elevation is 0 here
       ELSE IF range.value > 0
       THEN Fraction(e - minElevation(data).value, range.value)
       ELSE Fraction(1, 2)

\* processElevationData(elevationData, transformer): the elevations of the
\* points; the canvas position plays no part here
processElevationData(data) ==
    [i \in DOMAIN data |->
        [elevation |-> data[i], normalizedElevation |-> normalizedElevation(data, data[i])]]

\* TERRAIN_THRESHOLDS
TERRAIN_THRESHOLDS ==
    [flat |-> 30, rolling |-> 150, hilly |-> 800, lowAltitude |-> 200, highAltitude |-> 1000]

RECURSIVE SeqSum(_)
SeqSum(s) == IF s = <<>> THEN 0 ELSE Head(s) + SeqSum(Tail(s))

\* a terrain type is its altitude prefix and its base category
TerrainType(prefix, base) == [prefix |-> prefix, base |-> base]

\* mutant: a range equal to a threshold falls in the higher category
baseCategoryInclusive(elevRange) ==
    IF elevRange >= TERRAIN_THRESHOLDS.hilly THEN "mountainous"
    ELSE IF elevRange >= TERRAIN_THRESHOLDS.rolling THEN "hilly"
    ELSE IF elevRange >= TERRAIN_THRESHOLDS.flat THEN "rolling"
    ELSE "flat"

\* lines 38-49: mountainous, hilly, rolling or flat
baseCategory(elevRange) ==
    IF elevRange > TERRAIN_THRESHOLDS.hilly THEN "mountainous"
    ELSE IF elevRange > TERRAIN_THRESHOLDS.rolling THEN "hilly"
    ELSE IF elevRange > TERRAIN_THRESHOLDS.flat THEN "rolling"
    ELSE "flat"

\* mutant: the test for high altitude has the threshold of low altitude
altitudePrefixOneThreshold(sum, n) ==
    IF sum < TERRAIN_THRESHOLDS.lowAltitude * n THEN "low-"
    ELSE IF sum > TERRAIN_THRESHOLDS.lowAltitude * n THEN "high-"
    ELSE ""

\* lines 51-56, for mean = sum / n
altitudePrefix(sum, n) ==
    IF sum < TERRAIN_THRESHOLDS.lowAltitude * n THEN "low-"
    ELSE IF sum > TERRAIN_THRESHOLDS.highAltitude * n THEN "high-"
    ELSE ""

\* analyzeTerrain(points).  elevationVariability is kept as its square,
\* the variance (n * sum of squares - square of sum) / n^2
analyzeTerrain(points) ==
    IF Len(points) = 0
    THEN [terrainType |-> TerrainType("", "unknown"), elevationRange |-> 0,
          averageElevation |-> Fraction(0, 1), elevationVariability |-> Fraction(0, 1)]
    ELSE LET elevations == [i \in DOMAIN points |-> points[i].elevation]
             n == Len(elevations)
             elevRange == SeqMax(elevations) - SeqMin(elevations)
             sum == SeqSum(elevations)
             squares == SeqSum([i \in DOMAIN elevations |-> elevations[i] * elevations[i]])
         IN [terrainType |-> TerrainType(altitudePrefix(sum, n), baseCategory(elevRange)),
             elevationRange |-> elevRange,
             averageElevation |-> Fraction(sum, n),
             elevationVariability |-> Fraction(n * squares - sum * sum, n * n)]

\* TERRAIN_ADJUSTMENTS: horizonPosition, perspectiveExponent and peakEmphasis
\* in thousandths, amplificationFactor in hundredths, lineMultiplier in tenths
TERRAIN_ADJUSTMENTS ==
    [flat |-> [horizonPosition |-> 500, perspectiveExponent |-> 700,
               amplificationFactor |-> 10, peakEmphasis |-> 100, lineMultiplier |-> 10],
     rolling |-> [horizonPosition |-> 500, perspectiveExponent |-> 750,
                  amplificationFactor |-> 30, peakEmphasis |-> 150, lineMultiplier |-> 10],
     hilly |-> [horizonPosition |-> 500, perspectiveExponent |-> 750,
                amplificationFactor |-> 40, peakEmphasis |-> 200, lineMultiplier |-> 10],
     mountainous |-> [horizonPosition |-> 600, perspectiveExponent |-> 850,
                      amplificationFactor |-> 92, peakEmphasis |-> 920,
                      lineMultiplier |-> 11]]

\* the unit of amplification: 1 / 2000000, so that every product is whole
AMPLIFICATION_UNIT == 2000000

\* the unit of numLines before Math.round: 1 / 10000
LINES_UNIT == 10000

\* DEFAULT_RENDER_PARAMS; horizonPosition, perspectiveExponent and
\* peakEmphasis in ten-thousandths
DEFAULT_RENDER_PARAMS ==
    [horizonPosition |-> 7500, perspectiveExponent |-> 6500,
     amplification |-> 650 * AMPLIFICATION_UNIT, peakEmphasis |-> 6500,
     numLines |-> 30]

Least(a, b) == IF a <= b THEN a ELSE b

Greatest(a, b) == IF a >= b THEN a ELSE b

\* x > 300 and x < 50 for the square root x of the fraction v
RootAbove(v, limit) == v.num > limit * limit * v.den

RootBelow(v, limit) == v.num < limit * limit * v.den

\* the switch on baseType, with its fallback to rolling
terrainParamsOf(base) ==
    IF base \in DOMAIN TERRAIN_ADJUSTMENTS
    THEN TERRAIN_ADJUSTMENTS[base] ELSE TERRAIN_ADJUSTMENTS.rolling

\* mutant: the adjustments for the elevation range are left out
rangeAdjustedUnclamped(terrain, value, low, high) == value

\* lines 133-140: Math.min below a range of 100, Math.max above 3000
rangeAdjusted(terrain, value, low, high) ==
    IF terrain.elevationRange < 100 THEN Least(value, low)
    ELSE IF terrain.elevationRange > 3000 THEN Greatest(value, high)
    ELSE value

\* getTerrainRenderParams(terrain, options)
getTerrainRenderParams(terrain, style) ==
    IF style # "perspective" THEN DEFAULT_RENDER_PARAMS
    ELSE
    LET terrainParams == terrainParamsOf(terrain.terrainType.base)
        low == terrain.terrainType.prefix = "low-"
        high == terrain.terrainType.prefix = "high-"
        smooth == RootBelow(terrain.elevationVariability, 50)
        rough == RootAbove(terrain.elevationVariability, 300)
        \* 550 * factor * (0.5 + 0.5 * (1 - Math.min(1.0, range / 5000)))
        amplification ==
            55 * terrainParams.amplificationFactor
               * (10000 - Least(5000, terrain.elevationRange))
               * (IF low THEN 14 ELSE IF high THEN 21 ELSE 20)
        horizonPosition ==
            terrainParams.horizonPosition * (IF low THEN 9 ELSE 10)
        perspectiveExponent ==
            terrainParams.perspectiveExponent * (IF high THEN 9 ELSE 10)
        peakEmphasis ==
            IF rough THEN terrainParams.peakEmphasis * 9
            ELSE IF smooth THEN terrainParams.peakEmphasis * 11
            ELSE terrainParams.peakEmphasis * 10
        \* Math.floor(30 * lineMultiplier), in LINES_UNIT
        lines0 == ((DEFAULT_RENDER_PARAMS.numLines * terrainParams.lineMultiplier) \div 10)
                      * LINES_UNIT
        lines1 == IF low THEN Least(55 * LINES_UNIT, (lines0 * 115) \div 100) ELSE lines0
        lines2 == IF smooth
                  THEN Least(55 * LINES_UNIT, (lines1 * 110) \div 100) ELSE lines1
    IN [horizonPosition |-> rangeAdjusted(terrain, horizonPosition, 3500, 6500),
        perspectiveExponent |-> perspectiveExponent,
        amplification |-> rangeAdjusted(terrain, amplification,
                                        300 * AMPLIFICATION_UNIT, 600 * AMPLIFICATION_UNIT),
        peakEmphasis |-> peakEmphasis,
        \* Math.round
        numLines |-> (lines2 + LINES_UNIT \div 2) \div LINES_UNIT]

NoTerrain ==
    [terrainType |-> TerrainType("", "none"), elevationRange |-> 0,
     averageElevation |-> Fraction(0, 1), elevationVariability |-> Fraction(0, 1)]

IdleRelief ==
    [pc |-> "idle", elevationData |-> <<>>, style |-> "dotgrid", points |-> <<>>,
     terrain |-> NoTerrain, params |-> DEFAULT_RENDER_PARAMS]

ReliefIdle == relief = IdleRelief

\* the arrays of at most n elevations
RECURSIVE ElevationArrays(_)
ElevationArrays(n) ==
    IF n = 0 THEN {<<>>}
    ELSE LET shorter == ElevationArrays(n - 1)
         IN shorter \cup {Append(s, e) : s \in shorter, e \in ElevationSamples}

\* the elevation data and the style a relief is generated from
InputRelief(data, style) ==
    relief = [IdleRelief EXCEPT !.pc = "input", !.elevationData = data, !.style = style]

\* const points = processElevationData(elevationData, transformer)
ProcessElevationData ==
    /\ relief.pc = "input"
    /\ relief' = [relief EXCEPT !.pc = "processed",
                                !.points = processElevationData(relief.elevationData)]

\* const terrain = analyzeTerrain(points)
AnalyzeTerrain ==
    /\ relief.pc = "processed"
    /\ relief' = [relief EXCEPT !.pc = "analyzed",
                                !.terrain = analyzeTerrain(relief.points)]

\* const renderParams = getTerrainRenderParams(terrain, options)
GetTerrainRenderParams ==
    /\ relief.pc = "analyzed"
    /\ relief' = [relief EXCEPT !.pc = "params",
                                !.params = getTerrainRenderParams(relief.terrain,
                                                                  relief.style)]

(***************************************************************************)
(* calculateBoundingBox (src/utils/water-detection.ts).  Degrees are       *)
(* counted in tenths of a millionth, so that a center may lie between two  *)
(* coordinates of 6 decimals; sizes are counted in centimetres.            *)
(***************************************************************************)
\* a millionth of a degree, in tenths of a millionth
MICRO_DEGREE == 10

\* one kilometre, in centimetres
KILOMETRE == 100000

\* a degree, in kilometres: const kmToDegree = 1 / 111
KM_PER_DEGREE == 111

\* Math.cos(latRadian), to 3 decimals, for the latitudes of the model:
\* around 0, 60 and 84.26083 degrees north and south
Cosine(lat) ==
    LET a == IF lat < 0 THEN -lat ELSE lat
        degrees == a \div (DEGREE * MICRO_DEGREE)
    IN IF degrees < 1 THEN Fraction(1000, 1000)
       ELSE IF degrees = 60 THEN Fraction(500, 1000)
       ELSE Fraction(100, 1000)

\* mutant: the value is cut to 6 decimals towards minus infinity
roundCoordinateDown(value) == (value \div MICRO_DEGREE) * MICRO_DEGREE

\* Math.round(value * 1e6) / 1e6: Math.round(x) is the floor of x + 0.5
roundCoordinate(value) ==
    ((value + (MICRO_DEGREE \div 2)) \div MICRO_DEGREE) * MICRO_DEGREE

\* area.size * kmToDegree / 2, cut to a tenth of a millionth of a degree
halfSizeDegrees(area) ==
    (area.size * ((DEGREE * MICRO_DEGREE) \div KILOMETRE))
        \div (2 * KM_PER_DEGREE)

\* area.size * longitudeKmToDegree / 2, where
\* longitudeKmToDegree = kmToDegree / Math.cos(latRadian)
halfSizeDegreesLon(area) ==
    LET cos == Cosine(area.centerLatitude)
    IN (halfSizeDegrees(area) * cos.den) \div cos.num

calculateBoundingBox(area) ==
    [minLat |-> roundCoordinate(area.centerLatitude - halfSizeDegrees(area)),
     maxLat |-> roundCoordinate(area.centerLatitude + halfSizeDegrees(area)),
     minLon |-> roundCoordinate(area.centerLongitude - halfSizeDegreesLon(area)),
     maxLon |-> roundCoordinate(area.centerLongitude + halfSizeDegreesLon(area))]

\* getCoordinateArea(center, sizeKm)
getCoordinateArea(center, sizeKm) ==
    [centerLatitude |-> center.latitude, centerLongitude |-> center.longitude,
     size |-> sizeKm]

\* center latitudes: on a coordinate of 6 decimals and just off one, at the
\* equator, at 60 degrees and at 84.26083 degrees
BoxLatitudes == {0, 4, -6, 600000004, -600000000, 842608306}

\* center longitudes, up to the antimeridian
BoxLongitudes == {0, 4, -6, 1799999996, -1800000000}

\* sizes: 1 cm, 10 cm, 12 cm, 1 km, 2.5 km (half of the default areaSize)
\* and 5 km (the default areaSize)
BoxSizes == {1, 10, 12, KILOMETRE, 250000, 500000}

NoBox == [minLat |-> 0, maxLat |-> 0, minLon |-> 0, maxLon |-> 0]

IdleBox == [pc |-> "idle", area |-> getCoordinateArea(Coordinate(0, 0), 0),
            bbox |-> NoBox]

BoxIdle == box = IdleBox

\* const area = getCoordinateArea(centerCoord, config.geographic.areaSize)
InputBox(center, sizeKm) ==
    box = [IdleBox EXCEPT !.pc = "area", !.area = getCoordinateArea(center, sizeKm)]

\* const bbox = calculateBoundingBox(area)
CalculateBoundingBox ==
    /\ box.pc = "area"
    /\ box' = [box EXCEPT !.pc = "bbox", !.bbox = calculateBoundingBox(box.area)]

(***************************************************************************)
(* Terrain tiles (src/api/elevation.ts): getTileCoordinates,               *)
(* getPositionInTile and extractElevationFromTile.  Coordinates are        *)
(* counted in 2^-20 degrees and the Mercator ordinate of a latitude in     *)
(* 2^-24 of the height of the map, so that a tile and a pixel of a tile    *)
(* at zoom 14 are whole numbers of units; elevations are counted in        *)
(* tenths of a metre.                                                      *)
(***************************************************************************)
\* one degree, in the unit of the coordinates of a tile
TILE_DEGREE == 1048576

\* the height of the map, in the unit of the Mercator ordinate
MERCATOR_UNIT == 16777216

\* tileSize: number = 512
TILE_SIZE == 512

\* (1 - Math.log(Math.tan(latRad) + 1 / Math.cos(latRad)) / Math.PI) / 2 for
\* the latitudes of the model: the equator, one unit north of it, and 84.9
\* degrees north and south
Mercator(lat) ==
    CASE lat = 0 -> 8388608
      [] lat = 1 -> 8388607
      [] lat = 89024102 -> 80424
      [] lat = -89024102 -> 16696791

TileLatitudes == {0, 1, 89024102, -89024102}

\* -180 degrees, one unit short of 180 degrees, 0 and 2.35222 degrees
TileLongitudes == {-188743680, 188743679, 0, 2466482}

\* const zoom = 14, and a lower zoom level
Zooms == {12, 14}

\* Math.floor of a quotient
Floor(q) == q.num \div q.den

\* Math.round of a quotient
Round(q) == (2 * q.num + q.den) \div (2 * q.den)

\* (lon + 180) / 360 * n, for n = Math.pow(2, zoom)
xTileOf(lon, zoom) ==
    Fraction(lon + 180 * TILE_DEGREE, (360 * TILE_DEGREE) \div (2 ^ zoom))

\* (1 - Math.log(...) / Math.PI) / 2 * n, for n = Math.pow(2, zoom)
yTileOf(lat, zoom) == Fraction(Mercator(lat), MERCATOR_UNIT \div (2 ^ zoom))

\* mutant: the tile is the nearest one, not the one that holds the point
getTileCoordinatesNearest(lat, lon, zoom) ==
    [x |-> Round(xTileOf(lon, zoom)), y |-> Round(yTileOf(lat, zoom))]

getTileCoordinates(lat, lon, zoom) ==
    [x |-> Floor(xTileOf(lon, zoom)), y |-> Floor(yTileOf(lat, zoom))]

getPositionInTile(lat, lon, zoom, tileX, tileY, tileSize) ==
    LET xTile == xTileOf(lon, zoom)
        yTile == yTileOf(lat, zoom)
    IN [x |-> Floor(Fraction((xTile.num - tileX * xTile.den) * tileSize, xTile.den)),
        y |-> Floor(Fraction((yTile.num - tileY * yTile.den) * tileSize, yTile.den))]

\* an elevation that is not a number
NotANumber == [valid |-> FALSE, elevation |-> 0]

\* mutant: the red channel weighs 256
decodeElevationRedAsGreen(imageData, idx) ==
    IF idx + 2 < Len(imageData)
    THEN [valid |-> TRUE,
          elevation |-> -100000 + (imageData[idx + 1] * 256
                                   + imageData[idx + 2] * 256 + imageData[idx + 3])]
    ELSE NotANumber

\* lines 289-295: -10000 + ((r * 256 * 256 + g * 256 + b) * 0.1), in tenths
\* of a metre.  imageData[idx] is the byte at index idx, counted from 0; a
\* read past the end of the array is undefined and makes the elevation NaN
decodeElevation(imageData, idx) ==
    IF idx + 2 < Len(imageData)
    THEN [valid |-> TRUE,
          elevation |-> -100000 + (imageData[idx + 1] * 256 * 256
                                   + imageData[idx + 2] * 256 + imageData[idx + 3])]
    ELSE NotANumber

NO_VALID_ELEVATION == "No valid elevation values found in the tile"

\* returns [elevation] or throws [error]
extractElevationFromTile(imageData, width, height, latitude, longitude, tileX, tileY, zoom) ==
    LET position == getPositionInTile(latitude, longitude, zoom, tileX, tileY,
                                      TILE_SIZE)
        x == Least(Greatest(position.x, 0), width - 1)
        y == Least(Greatest(position.y, 0), height - 1)
        \* the 9 samples, row by row
        sample(k) ==
            LET sampleX == x + ((k - 1) % 3) - 1
                sampleY == y + ((k - 1) \div 3) - 1
            IN IF sampleX < 0 \/ sampleX >= width \/ sampleY < 0 \/ sampleY >= height
               THEN NotANumber
               ELSE decodeElevation(imageData, (sampleY * width + sampleX) * 4)
        elevations == SelectSeq([k \in 1..9 |-> sample(k)], LAMBDA s : s.valid)
    IN IF Len(elevations) = 0
       THEN [threw |-> TRUE, error |-> NO_VALID_ELEVATION, elevation |-> Fraction(0, 1)]
       ELSE [threw |-> FALSE, error |-> "",
             elevation |-> Fraction(SeqSum([i \in DOMAIN elevations |->
                                               elevations[i].elevation]),
                                    Len(elevations))]

\* the pixels of the images: -3446.4 m and 0 m
Pixels == {<<1, 0, 0, 255>>, <<1, 134, 160, 255>>}

\* the byte arrays of n pixels
RECURSIVE PixelArrays(_)
PixelArrays(n) ==
    IF n <= 0 THEN {<<>>}
    ELSE {s \o p : s \in PixelArrays(n - 1), p \in Pixels}

\* the images of a width and a height: all their pixels, one pixel short, or
\* the placeholder new Uint8Array(0)
ImageDatas(width, height) ==
    PixelArrays(width * height) \cup PixelArrays(width * height - 1) \cup {<<>>}

NoPosition == [x |-> 0, y |-> 0]

IdleTile ==
    [pc |-> "idle", latitude |-> 0, longitude |-> 0, zoom |-> 14,
     imageData |-> <<>>, width |-> 1, height |-> 1, tileX |-> 0, tileY |-> 0,
     position |-> NoPosition, elevation |-> Fraction(0, 1), error |-> ""]

TileIdle == tile = IdleTile

\* a coordinate whose elevation is asked for, and the image that its tile
\* decodes to
InputTile(lat, lon, zoom, width, height, imageData) ==
    tile = [IdleTile EXCEPT !.pc = "input", !.latitude = lat, !.longitude = lon,
                            !.zoom = zoom, !.width = width, !.height = height,
                            !.imageData = imageData]

\* const tileCoords = getTileCoordinates(latitude, longitude, zoom)
GetTileCoordinates ==
    /\ tile.pc = "input"
    /\ LET tileCoords == getTileCoordinates(tile.latitude, tile.longitude, tile.zoom)
       IN tile' = [tile EXCEPT !.pc = "tile", !.tileX = tileCoords.x,
                               !.tileY = tileCoords.y]

\* const elevation = extractElevationFromTile(png.image, png.width,
\* png.height, latitude, longitude, tileCoords.x, tileCoords.y, zoom)
ExtractElevationFromTile ==
    /\ tile.pc = "tile"
    /\ LET r == extractElevationFromTile(tile.imageData, tile.width, tile.height,
                                         tile.latitude, tile.longitude,
                                         tile.tileX, tile.tileY, tile.zoom)
       IN tile' = [tile EXCEPT
                     !.pc = IF r.threw THEN "threw" ELSE "extracted",
                     !.position = getPositionInTile(tile.latitude, tile.longitude,
                                                    tile.zoom, tile.tileX,
                                                    tile.tileY, TILE_SIZE),
                     !.elevation = r.elevation,
                     !.error = r.error]

(***************************************************************************)
(* The renderers (src/generators/renderers) and their dispatch             *)
(* (src/generators/relief.ts, src/generators/relief-generator.ts): the     *)
(* drawing operations that one call of render issues on the canvas.        *)
(* Lengths are in pixels and scale factors are whole numbers; an option    *)
(* that is 0 is an option that is not given (the code reads every numeric  *)
(* option with `||`).                                                      *)
(***************************************************************************)
BASE_RENDER_SIZE == 675

\* config.image.defaultStyle
DEFAULT_STYLE == "perspective"

\* value || fallback
OrElse(value, fallback) == IF value = 0 THEN fallback ELSE value

RECURSIVE GCD(_, _)
GCD(a, b) == IF b = 0 THEN a ELSE GCD(b, a % b)

\* the quotient in lowest terms
Reduced(q) ==
    LET g == GCD(q.num, q.den) IN IF g = 0 THEN q ELSE Fraction(q.num \div g, q.den \div g)

Plus(a, b) == Reduced(Fraction(a.num * b.den + b.num * a.den, a.den * b.den))

Minus(a, b) == Reduced(Fraction(a.num * b.den - b.num * a.den, a.den * b.den))

Times(a, b) == Reduced(Fraction(a.num * b.num, a.den * b.den))

Below(a, b) == a.num * b.den < b.num * a.den

\* one call on the canvas context: its name, a position, a radius, the
\* contour line it belongs to and the noise seed or random draw it used
Op(name, x, y, r, line, seed) ==
    [op |-> name, x |-> x, y |-> y, r |-> r, line |-> line, seed |-> seed]

\* ctx.fillRect(0, 0, width, height)
fillRect(width, height) == Op("fillRect", width, height, Fraction(0, 1), -1, 0)

\* createCanvas: the canvas comes with its background filled
createCanvas(options) == <<fillRect(options.width, options.height)>>

\* processElevationData with the transformer: each point keeps the canvas
\* position the transformer gave it
canvasPoints(data) ==
    LET processed == processElevationData([i \in DOMAIN data |-> data[i].elevation])
    IN [i \in DOMAIN data |->
           [x |-> data[i].x, y |-> data[i].y,
            elevation |-> processed[i].elevation,
            normalizedElevation |-> processed[i].normalizedElevation]]

\* Math.pow(point.x - x, 2) + Math.pow(point.y - y, 2); the square root the
\* code takes of it keeps the order
squaredDistance(point, x, y) ==
    (point.x - x) * (point.x - x) + (point.y - y) * (point.y - y)

RECURSIVE closestLoopLast(_, _, _, _, _)
\* mutant: distance <= minDistance
closestLoopLast(points, x, y, k, closest) ==
    IF k > Len(points) THEN closest
    ELSE closestLoopLast(points, x, y, k + 1,
             IF closest = 0
                \/ squaredDistance(points[k], x, y) <= squaredDistance(points[closest], x, y)
             THEN k ELSE closest)

RECURSIVE closestLoop(_, _, _, _, _)
\* for (const point of points) if (distance < minDistance) ...; closest is
\* 0 while closestPoint is null and minDistance is Number.MAX_VALUE
closestLoop(points, x, y, k, closest) ==
    IF k > Len(points) THEN closest
    ELSE closestLoop(points, x, y, k + 1,
             IF closest = 0
                \/ squaredDistance(points[k], x, y) < squaredDistance(points[closest], x, y)
             THEN k ELSE closest)

\* mutant: the last of the nearest points wins
closestPointLast(points, x, y) == closestLoopLast(points, x, y, 1, 0)

\* the index of closestPoint after the loop of lines 47-60
closestPoint(points, x, y) == closestLoop(points, x, y, 1, 0)

\* DotGridRenderer: const gridSize = 30
DOT_GRID_SIZE == 30

\* minRadius + (closestPoint.normalizedElevation * (maxRadius - minRadius))
dotRadius(n, minRadius, maxRadius) == Plus(minRadius, Times(n, Minus(maxRadius, minRadius)))

\* DotGridRenderer.render; the canvases of the model make cellSize / 2 a
\* whole number, and a point list that is not empty always has a closest
\* point
dotGridRender(points, options) ==
    LET scaleFactor == OrElse(options.scaleFactor, 1)
        padding == OrElse(options.padding, 30) * scaleFactor
        size == Least(options.width, options.height)
        minRadius == Reduced(Fraction(scaleFactor, 2))
        maxRadius == Reduced(Fraction(size * scaleFactor, 70))
        cellSize == (size - (padding * 2)) \div DOT_GRID_SIZE
        offsetX == (options.width - size) \div 2 + padding
        offsetY == (options.height - size) \div 2 + padding
        xOf(col) == offsetX + (col * cellSize) + (cellSize \div 2)
        yOf(row) == offsetY + (row * cellSize) + (cellSize \div 2)
        circle(row, col) ==
            LET closest == points[closestPoint(points, xOf(col), yOf(row))]
            IN Op("arc", xOf(col), yOf(row),
                  dotRadius(Reduced(closest.normalizedElevation), minRadius, maxRadius), -1, 0)
    IN <<fillRect(options.width, options.height)>>
       \o (IF Len(points) = 0 THEN <<>>
           ELSE [k \in 1 .. DOT_GRID_SIZE * DOT_GRID_SIZE |->
                    circle((k - 1) \div DOT_GRID_SIZE, (k - 1) % DOT_GRID_SIZE)])

RECURSIVE sortByX(_)
\* [...points].sort((a, b) => a.x - b.x): a stable sort
sortByX(points) ==
    IF points = <<>> THEN <<>>
    ELSE LET first == CHOOSE i \in DOMAIN points :
                          \A j \in DOMAIN points :
                              points[i].x < points[j].x \/ (points[i].x = points[j].x /\ i <= j)
         IN <<points[first]>>
            \o sortByX([k \in 1 .. Len(points) - 1 |->
                           IF k < first THEN points[k] ELSE points[k + 1]])

\* GraphRenderer.render: per line the stroke, the label and the twelve
\* segments whose slopes are drawn with Math.random(); random stands for
\* the draws of one render
graphRender(points, options, random) ==
    LET numLines == OrElse(options.contourLines, 20)
        sortedPoints == sortByX(points)
        lineOp(k) ==
            LET i == (k - 1) \div 3
            IN CASE (k - 1) % 3 = 0 -> Op("stroke", 0, 0, Fraction(0, 1), i, 0)
                 [] (k - 1) % 3 = 1 -> Op("fillText", 0, 0, Fraction(0, 1), i, 0)
                 [] OTHER -> Op("segments", 0, 0, Fraction(0, 1), i, random)
    IN <<fillRect(options.width, options.height)>>
       \o [k \in 1 .. 3 * numLines |-> lineOp(k)]
       \o (IF Len(sortedPoints) >= 2
           THEN [k \in DOMAIN sortedPoints |->
                    Op("marker", sortedPoints[k].x, 0,
                       Reduced(sortedPoints[k].normalizedElevation), -1, 0)]
           ELSE <<>>)

\* mutant: the seed handed to the constructor is dropped
SimpleNoiseUnseeded(seed, random) == [seed |-> random]

\* new SimpleNoise(seed), constructor(seed = Math.random() * 10000): random
\* is what Math.random() * 10000 gives when the default is evaluated, and
\* seed is 0 when no seed is given
SimpleNoise(seed, random) == [seed |-> IF seed = 0 THEN random ELSE seed]

\* PERSPECTIVE_CONFIG
PERSPECTIVE_CONFIG ==
    [defaultPadding |-> 20, defaultGridResolution |-> 30, defaultEmptyCellValue |-> 0]

\* setupCanvas: this.padding, this.gridSize and the background
setupCanvas(options) ==
    LET scaleFactor == OrElse(options.scaleFactor, 1)
    IN [padding |-> OrElse(options.padding, PERSPECTIVE_CONFIG.defaultPadding) * scaleFactor,
        gridSize |-> OrElse(options.gridResolution,
                            PERSPECTIVE_CONFIG.defaultGridResolution * scaleFactor),
        drawn |-> <<fillRect(options.width, options.height)>>]

\* Math.round(numLines * Math.sqrt(width / BASE_RENDER_SIZE))
scaledLines(numLines, width) ==
    CHOOSE k \in 0 .. 4 * numLines :
        /\ (2 * k - 1) * (2 * k - 1) * BASE_RENDER_SIZE <= 4 * numLines * numLines * width
        /\ 4 * numLines * numLines * width < (2 * k + 1) * (2 * k + 1) * BASE_RENDER_SIZE

\* PerspectiveRenderer.analyzeTerrain: renderParams.numLines
perspectiveLines(points, options) ==
    LET terrain == analyzeTerrain(points)
        renderParams == getTerrainRenderParams(terrain, "perspective")
    IN IF options.width > BASE_RENDER_SIZE
       THEN scaledLines(renderParams.numLines, options.width)
       ELSE renderParams.numLines

\* an index of the grid, or NaN
GridIndex(i) == [valid |-> TRUE, index |-> i]

GridNaN == [valid |-> FALSE, index |-> 0]

\* Math.min(Math.floor((v - min) / (max - min) * gridSize), gridSize - 1)
\* for min the least and max the greatest of the values, max starting from
\* Number.MIN_VALUE
gridIndex(v, lo, hi, gridSize) ==
    IF hi.kind = "tiny"
    THEN (IF lo.value = 0 THEN GridIndex(0)
          ELSE GridIndex(Least(((v - lo.value) * gridSize) \div (0 - lo.value), gridSize - 1)))
    ELSE IF hi.value = lo.value THEN GridNaN
    ELSE GridIndex(Least(((v - lo.value) * gridSize) \div (hi.value - lo.value),
                         gridSize - 1))

\* prepareElevationGrid, lines 113-134: the cell of each point
gridCells(points, gridSize) ==
    LET xs == [i \in DOMAIN points |-> points[i].x]
        ys == [i \in DOMAIN points |-> points[i].y]
        minX == MinOver(NUMBER_MAX_VALUE, xs)
        maxX == MaxOver(NUMBER_MIN_VALUE, xs)
        minY == MinOver(NUMBER_MAX_VALUE, ys)
        maxY == MaxOver(NUMBER_MIN_VALUE, ys)
    IN [i \in DOMAIN points |->
           [gridX |-> gridIndex(points[i].x, minX, maxX, gridSize),
            gridY |-> gridIndex(points[i].y, minY, maxY, gridSize)]]

\* this.smoothedGrid[gridY][gridX] with gridY NaN reads a property of
\* undefined, which throws a TypeError; with gridX NaN alone it reads
\* undefined and the cell is left as it is
gridThrows(cells) == \E i \in DOMAIN cells : ~cells[i].gridY.valid

\* Math.max(2, Math.round(scaleFactor + 1))
skipInterval(scaleFactor) == Greatest(2, scaleFactor + 1)

\* i !== 0 && i !== numLines - 1 && i % skipInterval !== 0
skipsLine(i, numLines, scaleFactor) ==
    i # 0 /\ i # numLines - 1 /\ i % skipInterval(scaleFactor) # 0

\* mutant: the masking polygon is filled after the strokes
drawContourLineMaskLast(lineIndex, totalLines, noise, scaleFactor, shouldMask) ==
    (IF skipsLine(lineIndex, totalLines, scaleFactor) THEN <<>>
     ELSE <<Op("strokes", 0, 0, Fraction(0, 1), lineIndex, noise.seed)>>)
    \o (IF shouldMask THEN <<Op("mask", 0, 0, Fraction(0, 1), lineIndex, 0)>> ELSE <<>>)

\* drawContourLineWithMarkerEffect: the masking polygon, then the marker
\* pen strokes of the line, whose widths, count and curves come from
\* noise.get
drawContourLineWithMarkerEffect(lineIndex, totalLines, noise, scaleFactor, shouldMask) ==
    (IF shouldMask THEN <<Op("mask", 0, 0, Fraction(0, 1), lineIndex, 0)>> ELSE <<>>)
    \o (IF skipsLine(lineIndex, totalLines, scaleFactor) THEN <<>>
        ELSE <<Op("strokes", 0, 0, Fraction(0, 1), lineIndex, noise.seed)>>)

RECURSIVE contourLoop(_, _, _, _, _)
\* for (let i = 0; i < renderParams.numLines; i++); lastDrawnLineIndex is
\* -1 while it is null
contourLoop(i, numLines, noise, scaleFactor, lastDrawnLineIndex) ==
    IF i >= numLines THEN <<>>
    ELSE IF skipsLine(i, numLines, scaleFactor)
    THEN contourLoop(i + 1, numLines, noise, scaleFactor, lastDrawnLineIndex)
    ELSE drawContourLineWithMarkerEffect(i, numLines, noise, scaleFactor,
                                         lastDrawnLineIndex # -1)
         \o contourLoop(i + 1, numLines, noise, scaleFactor, i)

\* PerspectiveRenderer.drawContourLines
drawContourLines(numLines, noise, options) ==
    contourLoop(0, numLines, noise, OrElse(options.scaleFactor, 1), -1)

\* what a call of render leaves: the operations drawn, whether it threw,
\* and for the perspective renderer the cells of the points
Rendered(drawn, threw, cells) == [drawn |-> drawn, threw |-> threw, cells |-> cells]

\* the phases of render: setupCanvas, analyzeTerrain, prepareElevationGrid
\* (which returns at once when there is no point) and drawContourLines
perspectivePhases(points, options, noise) ==
    LET setup == setupCanvas(options)
        numLines == perspectiveLines(points, options)
        cells == gridCells(points, setup.gridSize)
    IN IF gridThrows(cells) THEN Rendered(setup.drawn, TRUE, cells)
       ELSE Rendered(setup.drawn \o drawContourLines(numLines, noise, options),
                     FALSE, cells)

\* mutant: no test of points.length
perspectiveRenderUnguarded(points, options, noise) ==
    perspectivePhases(points, options, noise)

\* PerspectiveRenderer.render
perspectiveRender(points, options, noise) ==
    IF Len(points) = 0 THEN Rendered(<<>>, FALSE, <<>>)
    ELSE perspectivePhases(points, options, noise)

\* new SimpleNoise(): the seed argument is undefined
NoSeed == -1

\* the switch of generateRelief on options.style
rendererOf(style) ==
    CASE style = "dotgrid" -> "DotGridRenderer"
      [] style = "graph" -> "GraphRenderer"
      [] style = "perspective" -> "PerspectiveRenderer"
      [] OTHER -> "DotGridRenderer"

\* generateRelief: the canvas, the points, the renderer and its render;
\* seed is the draw of the constructor of PerspectiveRenderer, default the
\* draw of the default seed of SimpleNoise, random the draws of
\* GraphRenderer
generateRelief(data, options, seed, default, random) ==
    LET points == canvasPoints(data)
        renderer == rendererOf(options.style)
    IN [canvas |-> createCanvas(options),
        renderer |-> renderer,
        rendered |->
            CASE renderer = "DotGridRenderer" ->
                     Rendered(dotGridRender(points, options), FALSE, <<>>)
              [] renderer = "GraphRenderer" ->
                     Rendered(graphRender(points, options, random), FALSE, <<>>)
              [] OTHER ->
                     perspectiveRender(points, options, SimpleNoise(seed, default))]

\* mutant: a style that is not known becomes dotgrid
validStyleDotgrid(style) ==
    LET selectedStyle == IF style = "" THEN DEFAULT_STYLE ELSE style
    IN IF selectedStyle \in {"dotgrid", "graph", "perspective"}
       THEN selectedStyle ELSE "dotgrid"

\* generateReliefFromCoordinate, lines 149-155: style || defaultStyle, then
\* validStyle; "" is a style that is not given
validStyle(style) ==
    LET selectedStyle == IF style = "" THEN DEFAULT_STYLE ELSE style
    IN IF selectedStyle \in {"dotgrid", "graph", "perspective"}
       THEN selectedStyle ELSE "graph"

\* generateReliefFromCoordinate, lines 157-169: renderOptions
renderOptions(image, style, resolution) ==
    [width |-> image.width, height |-> image.height, scaleFactor |-> image.scaleFactor,
     padding |-> 25 * OrElse(image.scaleFactor, 1), contourLines |-> 15,
     gridResolution |-> resolution, style |-> validStyle(style)]

\* config.geographic.resolution
RESOLUTION == 30

\* a point of the elevation data, at the canvas position the transformer
\* gives it
DataPoint(x, y, elevation) == [x |-> x, y |-> y, elevation |-> elevation]

\* two points at one height on either side of a cell centre of the 300
\* pixel canvas and a point straight below the first
DataPoints ==
    {DataPoint(30, 34, 100), DataPoint(38, 34, 500), DataPoint(30, 270, 300)}

RECURSIVE DataLists(_)
DataLists(n) ==
    IF n = 0 THEN {<<>>}
    ELSE DataLists(n - 1)
         \cup {Append(l, p) : l \in {m \in DataLists(n - 1) : Len(m) = n - 1}, p \in DataPoints}

Canvas(width, height, scaleFactor, padding, gridResolution, contourLines) ==
    [width |-> width, height |-> height, scaleFactor |-> scaleFactor,
     padding |-> padding, gridResolution |-> gridResolution,
     contourLines |-> contourLines]

\* the options of the callers of generateRelief: a square canvas with every
\* option given, and a wide one with none
DirectCanvases == {Canvas(300, 300, 1, 30, 30, 15), Canvas(400, 300, 0, 0, 0, 0)}

\* config.image of a deployment: the size of the image and its scale factor
ImageConfigs ==
    {[width |-> 350, height |-> 350, scaleFactor |-> 1],
     [width |-> 1400, height |-> 1400, scaleFactor |-> 2]}

\* "sketch" stands for every style name that is not known
StyleNames == {"dotgrid", "graph", "perspective", "sketch"}

\* the values Math.random() can give in one behaviour
RandomDraws == 1 .. MaxDraws

\* the draws a render makes: the seed and the default seed when a
\* PerspectiveRenderer is constructed, the slopes when a GraphRenderer renders
DrawsOf(renderer, user) == IF renderer = user THEN RandomDraws ELSE {NoSeed}

\* the options of a canvas with options.style
Options(canvas, style) ==
    [width |-> canvas.width, height |-> canvas.height,
     scaleFactor |-> canvas.scaleFactor, padding |-> canvas.padding,
     gridResolution |-> canvas.gridResolution, contourLines |-> canvas.contourLines,
     style |-> style]

NoOptions == Options(Canvas(0, 0, 0, 0, 0, 0), "")

NoImage == [width |-> 0, height |-> 0, scaleFactor |-> 0]

NoPrevious == [seed |-> NoSeed, drawn |-> <<>>]

IdleRender ==
    [pc |-> "idle", entry |-> "", data |-> <<>>, image |-> NoImage, style |-> "",
     options |-> NoOptions, renderer |-> "", canvas |-> <<>>, drawn |-> <<>>,
     threw |-> FALSE, error |-> "", cells |-> <<>>, seed |-> NoSeed, renders |-> 0,
     previous |-> NoPrevious]

RenderIdle == render = IdleRender

\* a caller of generateRelief with its options
InputDirect(data, canvas, style) ==
    render = [IdleRender EXCEPT !.pc = "input", !.entry = "generateRelief",
                                !.data = data, !.style = style,
                                !.options = Options(canvas, style)]

\* a caller of generateReliefFromCoordinate with the elevations collected
InputCoordinate(data, image, style) ==
    render = [IdleRender EXCEPT !.pc = "input",
                                !.entry = "generateReliefFromCoordinate",
                                !.data = data, !.image = image, !.style = style]

\* the state after generateRelief has run with these options
AfterRelief(options, seed, default, random) ==
    LET relieved == generateRelief(render.data, options, seed, default, random)
    IN [render EXCEPT !.pc = IF relieved.rendered.threw THEN "threw" ELSE "rendered",
                      !.options = options,
                      !.renderer = relieved.renderer,
                      !.canvas = relieved.canvas,
                      !.drawn = relieved.rendered.drawn,
                      !.threw = relieved.rendered.threw,
                      !.error = IF relieved.rendered.threw THEN "TypeError" ELSE "",
                      !.cells = relieved.rendered.cells,
                      !.seed = IF relieved.renderer = "PerspectiveRenderer"
                               THEN seed ELSE NoSeed,
                      !.renders = render.renders + 1]

\* generateRelief called with the options of the caller; it has no await,
\* so the render is part of the call
GenerateRelief ==
    /\ render.pc = "input"
    /\ render.entry = "generateRelief"
    /\ LET renderer == rendererOf(render.options.style)
       IN \E seed \in DrawsOf(renderer, "PerspectiveRenderer"),
             default \in DrawsOf(renderer, "PerspectiveRenderer"),
             random \in DrawsOf(renderer, "GraphRenderer") :
              render' = AfterRelief(render.options, seed, default, random)

\* generateReliefFromCoordinate from the test of the number of elevations
\* to its call of generateRelief
GenerateReliefFromCoordinate ==
    /\ render.pc = "input"
    /\ render.entry = "generateReliefFromCoordinate"
    /\ IF Len(render.data) < MIN_ELEVATION_POINTS
       THEN render' = [render EXCEPT !.pc = "threw", !.threw = TRUE,
                                     !.error = "Not enough elevation data points collected. Try again later.",
                                     !.renders = render.renders + 1]
       ELSE LET options == renderOptions(render.image, render.style, RESOLUTION)
                renderer == rendererOf(options.style)
            IN \E seed \in DrawsOf(renderer, "PerspectiveRenderer"),
                  default \in DrawsOf(renderer, "PerspectiveRenderer"),
                  random \in DrawsOf(renderer, "GraphRenderer") :
                   render' = AfterRelief(options, seed, default, random)

\* the caller asks for the same relief once more
RenderAgain ==
    /\ render.pc = "rendered"
    /\ render.renders < MaxRenders
    /\ render' = [render EXCEPT !.pc = "input",
                                !.previous = [seed |-> render.seed, drawn |-> render.drawn]]


\* a process after construction, or one that has made all but Slack of its
\* daily requests and has since called clearTileCache()
InitFetch ==
    /\ provider \in Providers
    /\ apiKey \in (IF provider = "mapbox" THEN BOOLEAN ELSE {FALSE})
    /\ now = 1
    /\ calls = EmptyBag
    /\ started = 0
    /\ returned = NoResponse
    /\ tileCache = <<>>
    /\ \E aged \in BOOLEAN :
         IF aged /\ provider = "opentopodata"
         THEN /\ lastRequestTime = now
              /\ dailyRequestCount = MAX_DAILY_REQUESTS - Slack
              /\ otdRequests = dailyRequestCount
              /\ sent = <<now>>
         ELSE /\ lastRequestTime = 0
              /\ dailyRequestCount = 0
              /\ otdRequests = 0
              /\ sent = <<>>

\* a process that has fetched the tiles 1..AgedFetches one after another
InitAged ==
    /\ provider \in KnownProviders
    /\ apiKey = (provider = "mapbox")
    /\ now = 1
    /\ calls = EmptyBag
    /\ started = 0
    /\ returned = NoResponse
    /\ tileCache = Prefilled(AgedFetches,
                             IF provider = "mapbox" THEN "png" ELSE "placeholder")
    /\ lastRequestTime = now
    /\ dailyRequestCount = IF provider = "opentopodata" THEN AgedFetches ELSE 0
    /\ otdRequests = dailyRequestCount
    /\ sent = IF provider = "opentopodata" THEN <<now>> ELSE <<>>

\* a caller calls fetchElevation for a coordinate of tile k
CallFetch(k) ==
    /\ BagCardinality(calls) < MaxCalls
    /\ started < MaxFetches
    /\ StartFetch(k)

Init == InitFetch /\ GenIdle /\ WaterIdle /\ RandIdle /\ ReliefIdle /\ BoxIdle /\ TileIdle /\ RenderIdle

Next ==
    \/ \E k \in FewKeys : CallFetch(k) /\ UNCHANGED fetchFrame
    \/ \E call \in BagToSet(calls) : WakeCall(call) /\ UNCHANGED fetchFrame
    \/ \E call \in BagToSet(calls), http \in HttpOutcomes :
          CompleteFetch(call, http) /\ UNCHANGED fetchFrame
    \/ \E d \in TickSteps : Tick(d, MaxTime) /\ UNCHANGED fetchFrame

\* the pacing and the quota, on a small cache
Spec == Init /\ [][Next]_vars

InitCache == InitAged /\ GenIdle /\ WaterIdle /\ RandIdle /\ ReliefIdle /\ BoxIdle /\ TileIdle /\ RenderIdle

NextCache ==
    \/ \E k \in KeyChoices : CallFetch(k) /\ UNCHANGED fetchFrame
    \/ \E call \in BagToSet(calls) : WakeCall(call) /\ UNCHANGED fetchFrame
    \/ \E call \in BagToSet(calls), http \in HttpOutcomes :
          CompleteFetch(call, http) /\ UNCHANGED fetchFrame
    \/ Tick(MIN_REQUEST_SPACING, MaxCacheTime) /\ UNCHANGED fetchFrame

\* the tile cache close to its bound
SpecCache == InitCache /\ [][NextCache]_vars

\* the fetch loop of generateReliefFromCoordinate on top of fetchElevation
NextGen ==
    \/ \E res \in GridResolutions, tp \in TilePointChoices :
          GenStart(res, tp) /\ UNCHANGED genFrame
    \/ GenDelayDone /\ UNCHANGED genFrame
    \/ GenHandle /\ UNCHANGED genFrame
    \/ GenBackoffDone /\ UNCHANGED genFrame
    \/ /\ \E call \in BagToSet(calls) : WakeCall(call)
       /\ UNCHANGED fetchFrame
    \/ /\ \E call \in BagToSet(calls), http \in HttpOutcomes : CompleteFetch(call, http)
       /\ UNCHANGED fetchFrame
    \/ /\ Tick(MIN_REQUEST_SPACING, MaxGenTime)
       /\ UNCHANGED fetchFrame

InitGen == InitFetch /\ GenIdle /\ WaterIdle /\ RandIdle /\ ReliefIdle /\ BoxIdle /\ TileIdle /\ RenderIdle

SpecGen == InitGen /\ [][NextGen]_vars

(***************************************************************************)
(* The tile cache filled from empty: the tiles 1, 2, 3, ... are stored one *)
(* after another, by cacheTileData or by the store of fetchFromMapbox.     *)
(***************************************************************************)
InitFill ==
    /\ provider \in KnownProviders
    /\ apiKey = (provider = "mapbox")
    /\ now = 1
    /\ calls = EmptyBag
    /\ started = 0
    /\ returned = NoResponse
    /\ tileCache = <<>>
    /\ lastRequestTime = 0
    /\ dailyRequestCount = 0
    /\ otdRequests = 0
    /\ sent = <<>>
    /\ GenIdle
    /\ WaterIdle
    /\ RandIdle /\ ReliefIdle /\ BoxIdle /\ TileIdle /\ RenderIdle

FillCacheTileData ==
    /\ provider = "opentopodata"
    /\ started < MAX_CACHE_SIZE + FillExtra
    /\ started' = started + 1
    /\ tileCache' = cacheTileData(tileCache, started + 1)
    /\ UNCHANGED <<provider, apiKey, lastRequestTime, dailyRequestCount, now, calls,
                   sent, otdRequests, returned, fetchFrame>>

FillMapbox ==
    /\ provider = "mapbox"
    /\ started < MAX_CACHE_SIZE + FillExtra
    /\ started' = started + 1
    /\ tileCache' = mapboxCacheTile(tileCache, started + 1)
    /\ UNCHANGED <<provider, apiKey, lastRequestTime, dailyRequestCount, now, calls,
                   sent, otdRequests, returned, fetchFrame>>

NextFill == FillCacheTileData \/ FillMapbox

SpecFill == InitFill /\ [][NextFill]_vars

(***************************************************************************)
(* Water detection on its own: checks of a few coordinates, some of them   *)
(* outstanding at the same time.                                           *)
(***************************************************************************)
InitWater == InitFetch /\ GenIdle /\ RandIdle /\ ReliefIdle /\ BoxIdle /\ TileIdle /\ RenderIdle /\ WaterIdle

CheckWater(c) ==
    /\ waterChecks < MaxWaterChecks
    /\ BagCardinality(waterCalls) < MaxWaterCalls
    /\ checkCoordinateIsWater(c)
    /\ UNCHANGED waterFrame

NextWater ==
    \/ \E c \in WaterCoords : CheckWater(c)
    \/ \E call \in BagToSet(waterCalls), http \in TilequeryStatuses :
          TilequeryResponse(call, http) /\ UNCHANGED waterFrame
    \/ \E call \in BagToSet(waterCalls), body \in TilequeryBodies :
          TilequeryJson(call, body) /\ UNCHANGED waterFrame
    \/ \E call \in BagToSet(waterCalls) :
          TilequeryRejected(call) /\ UNCHANGED waterFrame

SpecWater == InitWater /\ [][NextWater]_vars

(***************************************************************************)
(* Water detection close to the bound of its cache: the process has        *)
(* checked AgedWaterChecks coordinates on land before, one after another,  *)
(* and each was answered land.                                             *)
(***************************************************************************)
AgedWaterChecks == MAX_WATER_CACHE_SIZE - Slack

\* the i-th coordinate checked before: i ten-thousandths north, 100 east
PrefilledCoord(i) == Coordinate(i * 100, 100 * DEGREE)

PrefilledWater(n) ==
    [i \in 1 .. n |-> [key |-> coordKey(PrefilledCoord(i)), isWater |-> FALSE]]

\* coordinates checked next: new ones and the one checked first
FullWaterCoords ==
    { Coordinate(48856610, 2352220), Coordinate(0, -140000000),
      Coordinate(-30, 10000000), PrefilledCoord(1) }

InitWaterFull ==
    /\ provider \in KnownProviders
    /\ apiKey = (provider = "mapbox")
    /\ now = 1
    /\ calls = EmptyBag
    /\ started = 0
    /\ returned = NoResponse
    /\ tileCache = <<>>
    /\ lastRequestTime = 0
    /\ dailyRequestCount = 0
    /\ otdRequests = 0
    /\ sent = <<>>
    /\ GenIdle
    /\ RandIdle /\ ReliefIdle /\ BoxIdle /\ TileIdle /\ RenderIdle
    /\ waterCache = PrefilledWater(AgedWaterChecks)
    /\ waterCalls = EmptyBag
    /\ waterChecks = 0
    /\ waterLog = NoWaterLog
    /\ waterAnswered = {[at |-> RoundedCoord(PrefilledCoord(i)), isWater |-> FALSE] :
                            i \in 1 .. AgedWaterChecks}

NextWaterFull ==
    \/ \E c \in FullWaterCoords : CheckWater(c)
    \/ \E call \in BagToSet(waterCalls), http \in TilequeryStatuses :
          TilequeryResponse(call, http) /\ UNCHANGED waterFrame
    \/ \E call \in BagToSet(waterCalls), body \in TilequeryBodies :
          TilequeryJson(call, body) /\ UNCHANGED waterFrame

SpecWaterFull == InitWaterFull /\ [][NextWaterFull]_vars

(***************************************************************************)
(* The candidate loop on its own.                                          *)
(***************************************************************************)
\* a process after construction, with the provider of the default configuration
InitRandom ==
    /\ InitFetch
    /\ provider = "opentopodata"
    /\ dailyRequestCount = 0
    /\ GenIdle
    /\ RandIdle /\ ReliefIdle /\ BoxIdle /\ TileIdle /\ RenderIdle
    /\ WaterIdle

NextRandom ==
    \/ RandStart /\ UNCHANGED randFrame
    \/ \E w \in 0 .. SampleCount, v \in 0 .. SampleCount,
          e1 \in ElevationChoices, e2 \in ElevationChoices :
          /\ rand.tried <= MaxCandidates
          /\ SamplingDone(w, v, e1, e2)
          /\ UNCHANGED randFrame
    \/ \E centerIsWater \in BOOLEAN : CenterDone(centerIsWater) /\ UNCHANGED randFrame
    \/ AreaValidated /\ UNCHANGED randFrame
    \/ \E outcome \in GenerationOutcomes : GenerationDone(outcome) /\ UNCHANGED randFrame

SpecRandom == InitRandom /\ [][NextRandom]_vars

(***************************************************************************)
(* The preparation of a render on its own: the functions are applied, one  *)
(* after another, to every array of at most MaxPoints elevations.          *)
(***************************************************************************)
InitRelief ==
    /\ InitFetch
    /\ provider = "opentopodata"
    /\ dailyRequestCount = 0
    /\ GenIdle
    /\ WaterIdle
    /\ RandIdle
    /\ BoxIdle /\ TileIdle /\ RenderIdle
    /\ \E data \in ElevationArrays(MaxPoints), style \in Styles : InputRelief(data, style)

NextRelief ==
    \/ ProcessElevationData /\ UNCHANGED reliefFrame
    \/ AnalyzeTerrain /\ UNCHANGED reliefFrame
    \/ GetTerrainRenderParams /\ UNCHANGED reliefFrame

SpecRelief == InitRelief /\ [][NextRelief]_vars

(***************************************************************************)
(* calculateBoundingBox on its own, applied to every area of the model.    *)
(***************************************************************************)
InitBox ==
    /\ InitFetch
    /\ provider = "opentopodata"
    /\ dailyRequestCount = 0
    /\ GenIdle
    /\ WaterIdle
    /\ RandIdle
    /\ ReliefIdle
    /\ TileIdle /\ RenderIdle
    /\ \E lat \in BoxLatitudes, lon \in BoxLongitudes, size \in BoxSizes :
         InputBox(Coordinate(lat, lon), size)

NextBox == CalculateBoundingBox /\ UNCHANGED boxFrame

SpecBox == InitBox /\ [][NextBox]_vars

(***************************************************************************)
(* The elevation of a coordinate read from the image of its tile, for      *)
(* images of at most MaxTileSide pixels a side.                            *)
(***************************************************************************)
InitTile ==
    /\ InitFetch
    /\ provider = "mapbox"
    /\ apiKey
    /\ dailyRequestCount = 0
    /\ GenIdle
    /\ WaterIdle
    /\ RandIdle
    /\ ReliefIdle
    /\ BoxIdle
    /\ RenderIdle
    /\ \E lat \in TileLatitudes, lon \in TileLongitudes, zoom \in Zooms,
          width \in 1..MaxTileSide, height \in 1..MaxTileSide :
         \E imageData \in ImageDatas(width, height) :
             InputTile(lat, lon, zoom, width, height, imageData)

NextTile ==
    \/ GetTileCoordinates /\ UNCHANGED tileFrame
    \/ ExtractElevationFromTile /\ UNCHANGED tileFrame

SpecTile == InitTile /\ [][NextTile]_vars

(***************************************************************************)
(* The renderers: a relief of at most MaxDots points rendered once,        *)
(* through generateRelief and through generateReliefFromCoordinate.        *)
(***************************************************************************)
InitRender ==
    /\ InitFetch
    /\ provider = "opentopodata"
    /\ dailyRequestCount = 0
    /\ GenIdle
    /\ WaterIdle
    /\ RandIdle
    /\ ReliefIdle
    /\ BoxIdle
    /\ TileIdle
    /\ \E data \in DataLists(MaxDots) :
         \/ \E canvas \in DirectCanvases, style \in StyleNames :
                InputDirect(data, canvas, style)
         \/ \E image \in ImageConfigs, style \in StyleNames \cup {""} :
                InputCoordinate(data, image, style)

NextRender ==
    \/ GenerateRelief /\ UNCHANGED renderFrame
    \/ GenerateReliefFromCoordinate /\ UNCHANGED renderFrame

SpecRender == InitRender /\ [][NextRender]_vars

(***************************************************************************)
(* A relief in the graph or the perspective style rendered at most         *)
(* MaxRenders times from the same elevations and options.                  *)
(***************************************************************************)
InitTwin ==
    /\ InitFetch
    /\ provider = "opentopodata"
    /\ dailyRequestCount = 0
    /\ GenIdle
    /\ WaterIdle
    /\ RandIdle
    /\ ReliefIdle
    /\ BoxIdle
    /\ TileIdle
    /\ \E data \in DataLists(MaxDots) :
         \/ \E canvas \in DirectCanvases, style \in {"graph", "perspective"} :
                InputDirect(data, canvas, style)
         \/ \E image \in ImageConfigs, style \in {"graph", "perspective", "sketch", ""} :
                InputCoordinate(data, image, style)

NextTwin ==
    \/ GenerateRelief /\ UNCHANGED renderFrame
    \/ GenerateReliefFromCoordinate /\ UNCHANGED renderFrame
    \/ RenderAgain /\ UNCHANGED renderFrame

SpecTwin == InitTwin /\ [][NextTwin]_vars

(***************************************************************************)
(* fetchElevation with every way a request can fail: the HTTP outcomes and *)
(* a network error or a body that is not the provider's format.            *)
(***************************************************************************)
FailureOutcomes == HttpOutcomes \cup {"network", "malformed"}

NextFailures ==
    \/ \E k \in FewKeys : CallFetch(k) /\ UNCHANGED fetchFrame
    \/ \E call \in BagToSet(calls) : WakeCall(call) /\ UNCHANGED fetchFrame
    \/ \E call \in BagToSet(calls), http \in FailureOutcomes :
          CompleteFetch(call, http) /\ UNCHANGED fetchFrame
    \/ \E d \in TickSteps : Tick(d, MaxTime) /\ UNCHANGED fetchFrame

SpecFailures == Init /\ [][NextFailures]_vars

(***************************************************************************)
(* The claims.                                                             *)
(***************************************************************************)

\* C2: whatever fetchElevation calls have run, with either provider and with
\* calls outstanding at the same time, the tile cache holds at most
\* MAX_CACHE_SIZE = 1000 entries.
C2_TileCacheBounded == Len(tileCache) <= MAX_CACHE_SIZE

\* C2 witness: the cache is full, its oldest tile has been evicted by a store
\* and another call is still outstanding.
C2_Witness ==
    /\ Len(tileCache) = MAX_CACHE_SIZE
    /\ tileCache[1].key # 1
    /\ calls # EmptyBag

\* C3: after 1001 distinct keys have been stored into an empty cache it holds
\* exactly 1000 entries, the first key is gone and the 1000 others are there.
C3_FillEvictsFirst ==
    started = MAX_CACHE_SIZE + 1 =>
        /\ Len(tileCache) = MAX_CACHE_SIZE
        /\ ~MapHas(tileCache, 1)
        /\ \A k \in 2 .. (MAX_CACHE_SIZE + 1) : \E i \in DOMAIN tileCache : tileCache[i].key = k

\* C3 witness: the 1001st key has just been stored.
C3_Witness == started = MAX_CACHE_SIZE + 1 /\ Len(tileCache) = MAX_CACHE_SIZE

\* C4 (as claimed): any two requests sent to OpenTopoData are at least
\* 1000 ms apart.
C4_RequestsSpaced ==
    Len(sent) = 2 => sent[2] - sent[1] >= MIN_REQUEST_SPACING

\* C5 (as claimed): OpenTopoData is sent at most 1000 requests in one run.
C5_QuotaRespected == otdRequests <= MAX_DAILY_REQUESTS

\* C7 (as claimed): with either provider an HTTP 429 makes fetchElevation
\* return an error response flagged rateLimited.
C7_RateLimitReported ==
    returned.http = "429" =>
        returned.resp.status = "error" /\ returned.resp.rateLimited

\* C6: in the fetch loop a grid coordinate is fetched at most twice, and a
\* second fetch follows only a rate-limited response, after the waits of
\* 5000 ms and 2000 ms; no other response is followed by a retry.
C6_OneRetryOnRateLimit ==
    /\ genLog.fetches <= 2
    /\ genLog.fetches = 2 =>
          /\ genLog.cause = "rateLimited"
          /\ genLog.waited >= RATE_LIMIT_DELAY + RETRY_DELAY

\* C6 witness: the second fetch of a coordinate is outstanding.
C6_Witness == genLog.fetches = 2 /\ gen.pc = "await"

\* C8: the loop has at most one fetchElevation call outstanding, starts no
\* fetch while one is outstanding, and with OpenTopoData the first attempt of
\* every point after the first starts at least 1000 ms after the point
\* before it was finished.
C8_SequentialAndPaced ==
    /\ BagCardinality(calls) <= 1
    /\ genLog.overlap = 0
    /\ calls # EmptyBag => gen.pc = "await"
    /\ (provider = "opentopodata" /\ gen.i > 0 /\ genLog.fetches = 1) =>
          genLog.startAt - genLog.doneAt >= 1000

\* C8 witness: with OpenTopoData the first attempt of the second grid point
\* is outstanding.
C8_Witness ==
    /\ provider = "opentopodata"
    /\ gen.i = 1
    /\ genLog.fetches = 1
    /\ gen.pc = "await"
    /\ calls # EmptyBag

\* C1: validateAreaForRelief accepts a candidate exactly when the center is
\* not water, at most 85% of the 16 sampled points are water, at least 3
\* points have an elevation and the range of these elevations is not below
\* minElevationRange; a water center rejects whatever the samples are.
\* The samples are w water points and v elevations that alternate between
\* e1 and e2.
C1_AcceptsExactlyWhen ==
    rand.decided =>
        LET in == rand.input
            range == IF in.v < 2 THEN 0
                     ELSE IF in.e1 >= in.e2 THEN in.e1 - in.e2 ELSE in.e2 - in.e1
        IN /\ rand.decision.isValid <=>
                 /\ ~in.center
                 /\ in.w * 100 <= 85 * 16
                 /\ in.v >= 3
                 /\ range >= 80
           /\ in.center => ~rand.decision.isValid

\* C1 witness: a candidate with 13 of 16 points on water (81.25%), exactly
\* 3 elevations and a range of exactly 80 m has been accepted
C1_Witness ==
    /\ rand.decided
    /\ rand.decision.isValid
    /\ rand.input.w = 13
    /\ rand.input.v = 3
    /\ rand.input.e1 = -40
    /\ rand.input.e2 = 40

\* C9: generateRandomRelief returns a result or raises an error only once a
\* candidate has validated; after every rejection it is validating a new
\* candidate, however many rejections there have been.
C9_NoBoundOnCandidates ==
    /\ [](rand.pc \in {"returned", "threw"} => rand.decision.isValid)
    /\ [][(rand.pc = "validated" /\ ~rand.decision.isValid) =>
              /\ rand'.pc = "sampling"
              /\ rand'.tried = rand.tried + 1
              /\ rand'.rejected = rand.rejected + 1]_vars

\* C9 witness: every candidate tried so far was rejected and one more is
\* being validated
C9_Witness ==
    /\ rand.rejected = MaxCandidates
    /\ rand.tried = MaxCandidates + 1
    /\ rand.pc = "sampling"

\* C10: checkCoordinateIsWater decides in a fixed order: a key cached when
\* the call starts answers with method cache; otherwise a coordinate outside
\* every land-mass box answers water, land-bounds, 0.9 without a query;
\* otherwise, for mapbox only, a tile query that answers gives tilequery
\* with 0.95; otherwise the answer is land, default-land, 0.7.
C10_FixedOrder ==
    LET log == waterLog
        res == waterLog.result
    IN res.method # "none" =>
          /\ IF log.hadKey
             THEN res.method = "cache" /\ ~log.queried
             ELSE IF ~log.onLand
             THEN /\ res = WaterDetectionResult(TRUE, "land-bounds", 90)
                  /\ ~log.queried
             ELSE IF provider = "mapbox" /\ log.answered
             THEN res.method = "tilequery" /\ res.confidence = 95 /\ log.queried
             ELSE res = WaterDetectionResult(FALSE, "default-land", 70)
          /\ provider # "mapbox" => ~log.queried

\* C10 witness: a coordinate outside every land-mass box whose key was
\* cached has been answered from the cache
C10_Witness ==
    /\ waterLog.hadKey
    /\ ~waterLog.onLand
    /\ waterLog.result.method = "cache"

\* C11 (as claimed): once checkCoordinateIsWater has answered for a
\* coordinate, a later call whose latitude and longitude round to the same
\* 4 decimals is answered from the cache, with an isWater that was answered
\* before and without a provider query (no entry is evicted here: the cache
\* stays far below its bound).
C11_RoundedCoordinateCached ==
    (waterLog.result.method # "none" /\ waterLog.prior # {}) =>
        /\ waterLog.result.method = "cache"
        /\ waterLog.result.isWater \in waterLog.prior
        /\ ~waterLog.queried

\* C12: the water-result cache never holds more than 1000 entries, and a
\* store of a new key into a cache of 1000 entries removes the key inserted
\* first and no other.
C12_WaterCacheBounded ==
    /\ [](Len(waterCache) <= 1000)
    /\ [][(/\ Len(waterCache) = 1000
           /\ waterCache' # waterCache
           /\ ~WaterHas(waterCache, waterCache'[Len(waterCache')].key)) =>
              /\ Len(waterCache') = 1000
              /\ ~WaterHas(waterCache', waterCache[1].key)
              /\ \A i \in 2 .. 1000 : waterCache'[i - 1] = waterCache[i]]_vars

\* C12 witness: the cache is full and the key inserted first has been
\* removed by the store of a new key.
C12_Witness ==
    /\ Len(waterCache) = 1000
    /\ ~WaterHas(waterCache, coordKey(PrefilledCoord(1)))
    /\ waterLog.result.method \in {"land-bounds", "tilequery", "default-land"}

\* C13 (as claimed): for a non-empty elevation set with a range above 0 the
\* samples at the minimum get normalizedElevation 0 and those at the maximum
\* get 1; when all elevations are equal every sample gets 0.5; negative and
\* zero elevations included.
C13_MinZeroMaxOne ==
    (relief.pc = "processed" /\ relief.elevationData # <<>>) =>
        LET data == relief.elevationData
            lo == SeqMin(data)
            hi == SeqMax(data)
        IN \A i \in DOMAIN relief.points :
              LET q == relief.points[i].normalizedElevation
              IN IF hi > lo
                 THEN /\ data[i] = lo => q.num = 0
                      /\ data[i] = hi => (q.num = q.den /\ q.den # 0)
                 ELSE 2 * q.num = q.den

\* C14: every point that processElevationData produces has a
\* normalizedElevation from 0 to 1.
C14_NormalizedInUnitInterval ==
    relief.pc = "processed" =>
        \A i \in DOMAIN relief.points :
            LET q == relief.points[i].normalizedElevation
            IN q.den > 0 /\ 0 <= q.num /\ q.num <= q.den

\* C14 witness: a set of negative elevations has been processed
C14_Witness ==
    /\ relief.pc = "processed"
    /\ relief.elevationData = <<-30, -1>>
    /\ Len(relief.points) = 2

\* C15 (as claimed): the base category of a non-empty collection is flat
\* when range < 30, rolling when 30 <= range < 150, hilly when
\* 150 <= range < 800 and mountainous when range >= 800.
C15_BaseCategoryByRange ==
    (relief.pc = "analyzed" /\ relief.points # <<>>) =>
        LET range == SeqMax(relief.elevationData) - SeqMin(relief.elevationData)
        IN relief.terrain.terrainType.base =
              IF range < 30 THEN "flat"
              ELSE IF range < 150 THEN "rolling"
              ELSE IF range < 800 THEN "hilly"
              ELSE "mountainous"

\* C15 (amended): the base category of a non-empty collection is flat when
\* range <= 30, rolling when 30 < range <= 150, hilly when
\* 150 < range <= 800 and mountainous when range > 800.
C15_BaseCategoryByRangeInclusive ==
    (relief.pc = "analyzed" /\ relief.points # <<>>) =>
        LET range == SeqMax(relief.elevationData) - SeqMin(relief.elevationData)
        IN relief.terrain.terrainType.base =
              IF range <= 30 THEN "flat"
              ELSE IF range <= 150 THEN "rolling"
              ELSE IF range <= 800 THEN "hilly"
              ELSE "mountainous"

\* C15 witness: a collection whose range is exactly 30 has been analysed as
\* flat
C15_Witness ==
    /\ relief.pc = "analyzed"
    /\ relief.elevationData = <<-30, 0>>
    /\ relief.terrain.elevationRange = 30
    /\ relief.terrain.terrainType.base = "flat"

\* C16 (as claimed): for every point collection the terrain type is flat,
\* rolling, hilly or mountainous, prefixed by low- exactly when the mean is
\* below 200 and by high- exactly when it is above 1000.
C16_TerrainTypeEveryCollection ==
    relief.pc = "analyzed" =>
        LET type == relief.terrain.terrainType
            sum == SeqSum(relief.elevationData)
            n == Len(relief.elevationData)
        IN /\ type.base \in {"flat", "rolling", "hilly", "mountainous"}
           /\ type.prefix \in {"", "low-", "high-"}
           /\ n > 0 => /\ type.prefix = "low-" <=> sum < 200 * n
                       /\ type.prefix = "high-" <=> sum > 1000 * n

\* C16 (amended): for every non-empty point collection the terrain type is
\* flat, rolling, hilly or mountainous, prefixed by low- exactly when the
\* mean is below 200 and by high- exactly when it is above 1000, and it is
\* a fixed function of the range and the mean; for the empty collection it
\* is unknown, without a prefix.
C16_TerrainTypeNonEmpty ==
    relief.pc = "analyzed" =>
        LET type == relief.terrain.terrainType
            data == relief.elevationData
            sum == SeqSum(data)
            n == Len(data)
        IN IF n = 0
           THEN type = TerrainType("", "unknown")
           ELSE /\ type.base \in {"flat", "rolling", "hilly", "mountainous"}
                /\ type.prefix \in {"", "low-", "high-"}
                /\ type.prefix = "low-" <=> sum < 200 * n
                /\ type.prefix = "high-" <=> sum > 1000 * n
                /\ type.base = LET range == SeqMax(data) - SeqMin(data)
                               IN IF range > 800 THEN "mountainous"
                                  ELSE IF range > 150 THEN "hilly"
                                  ELSE IF range > 30 THEN "rolling"
                                  ELSE "flat"

\* C16 witness: a collection with a mean above 1000 and a range above 800
\* has been analysed as high-mountainous
C16_Witness ==
    /\ relief.pc = "analyzed"
    /\ relief.elevationData = <<4300, 200>>
    /\ relief.terrain.terrainType = TerrainType("high-", "mountainous")

\* C17: for the perspective style, amplification <= 300 and
\* horizonPosition <= 0.35 whenever the range is below 100,
\* amplification >= 600 and horizonPosition >= 0.65 whenever it is above
\* 3000, and numLines is an integer of at most 55.
C17_ExtremeRangeClamps ==
    (relief.pc = "params" /\ relief.style = "perspective") =>
        LET range == relief.terrain.elevationRange
            params == relief.params
        IN /\ range < 100 => /\ params.amplification <= 300 * 2000000
                             /\ params.horizonPosition <= 3500
           /\ range > 3000 => /\ params.amplification >= 600 * 2000000
                              /\ params.horizonPosition >= 6500
           /\ params.numLines \in Int
           /\ params.numLines <= 55

\* C17 witness: a range above 3000 whose amplification was raised to 600
C17_Witness ==
    /\ relief.pc = "params"
    /\ relief.style = "perspective"
    /\ relief.terrain.elevationRange > 3000
    /\ relief.params.amplification = 600 * AMPLIFICATION_UNIT
    /\ relief.params.horizonPosition = 6500

\* C18 (as claimed): the bounding box calculated from a center with a
\* latitude strictly between -90 and 90 and a positive size contains that
\* center, after the rounding to 6 decimals.
C18_BoxContainsCenter ==
    box.pc = "bbox" =>
        /\ box.bbox.minLat <= box.area.centerLatitude
        /\ box.area.centerLatitude <= box.bbox.maxLat
        /\ box.bbox.minLon <= box.area.centerLongitude
        /\ box.area.centerLongitude <= box.bbox.maxLon

\* C18 (amended): the bounding box calculated from a center with a latitude
\* strictly between -90 and 90 and a size of at least 0.00012 km contains
\* that center, after the rounding to 6 decimals.
C18_BoxContainsCenterOfWideArea ==
    (box.pc = "bbox" /\ box.area.size >= 12) =>
        /\ box.bbox.minLat <= box.area.centerLatitude
        /\ box.area.centerLatitude <= box.bbox.maxLat
        /\ box.bbox.minLon <= box.area.centerLongitude
        /\ box.area.centerLongitude <= box.bbox.maxLon

\* C18 witness: the box of an area of 12 cm whose center lies between two
\* coordinates of 6 decimals has been calculated, and its corners are
\* rounded away from the center
C18_Witness ==
    /\ box.pc = "bbox"
    /\ box.area = getCoordinateArea(Coordinate(4, -6), 12)
    /\ box.bbox = [minLat |-> 0, maxLat |-> 10, minLon |-> -10, maxLon |-> 0]

\* C19: extractElevationFromTile clamps the pixel position into the image,
\* decodes every pixel of the 3x3 neighbourhood that lies in the image as
\* -10000 + (R*65536 + G*256 + B)*0.1 (R=1, G=0, B=0 gives -3446.4), returns
\* the arithmetic mean of the valid values, and throws when no neighbour
\* yields a valid value.  Elevations are in tenths of a metre.
C19_MeanOfValidNeighbours ==
    tile.pc \in {"extracted", "threw"} =>
        LET w == tile.width
            h == tile.height
            data == tile.imageData
            px == tile.position.x
            py == tile.position.y
            x == IF px < 0 THEN 0 ELSE IF px > w - 1 THEN w - 1 ELSE px
            y == IF py < 0 THEN 0 ELSE IF py > h - 1 THEN h - 1 ELSE py
            Valid(sx, sy) == /\ sx \in 0..(w - 1)
                             /\ sy \in 0..(h - 1)
                             /\ (sy * w + sx) * 4 + 3 <= Len(data)
            Value(sx, sy) ==
                LET first == (sy * w + sx) * 4 + 1
                IN -100000 + data[first] * 65536 + data[first + 1] * 256
                           + data[first + 2]
            Term(dx, dy) == IF Valid(x + dx, y + dy) THEN Value(x + dx, y + dy) ELSE 0
            total == Term(-1, -1) + Term(0, -1) + Term(1, -1)
                     + Term(-1, 0) + Term(0, 0) + Term(1, 0)
                     + Term(-1, 1) + Term(0, 1) + Term(1, 1)
            count == Cardinality({n \in ((x - 1)..(x + 1)) \X ((y - 1)..(y + 1)) :
                                     Valid(n[1], n[2])})
        IN /\ IF count = 0
              THEN tile.pc = "threw" /\ tile.error = NO_VALID_ELEVATION
              ELSE /\ tile.pc = "extracted"
                   /\ tile.elevation.den > 0
                   /\ tile.elevation.num * count = total * tile.elevation.den
           /\ (tile.pc = "extracted" /\ data = <<1, 0, 0, 255>>) =>
                  tile.elevation = Fraction(-34464, 1)

\* C19 witness: a position right of an image of 2 by 2 pixels was clamped
\* into it, the image is one pixel short, and the mean of the three valid
\* values (-3446.4, 0 and -3446.4) was returned
C19_Witness ==
    /\ tile.pc = "extracted"
    /\ tile.width = 2
    /\ tile.height = 2
    /\ tile.position.x > 1
    /\ tile.imageData = <<1, 0, 0, 255, 1, 134, 160, 255, 1, 0, 0, 255>>
    /\ tile.elevation = Fraction(-68928, 3)

\* C20: for a latitude in (-85,85) and a longitude in [-180,180),
\* getPositionInTile applied to the tile that getTileCoordinates returns at
\* the same zoom gives x and y in [0, tileSize).
C20_PositionInsideTile ==
    tile.pc \in {"extracted", "threw"} =>
        /\ 0 <= tile.position.x /\ tile.position.x < TILE_SIZE
        /\ 0 <= tile.position.y /\ tile.position.y < TILE_SIZE

\* C20 witness: at zoom 14 a coordinate one unit north of the equator and
\* one unit short of 180 degrees east lies on the last pixel of its tile
C20_Witness ==
    /\ tile.pc \in {"extracted", "threw"}
    /\ tile.zoom = 14
    /\ tile.latitude = 1
    /\ tile.longitude = 180 * TILE_DEGREE - 1
    /\ tile.tileX = 16383
    /\ tile.tileY = 8191
    /\ tile.position = [x |-> 511, y |-> 511]

\* the circles among the operations drawn
Circles == SelectSeq(render.drawn, LAMBDA o : o.op = "arc")

\* the first point of the list among those nearest to (x, y)
Nearest(points, x, y) ==
    CHOOSE i \in DOMAIN points :
        \A j \in DOMAIN points :
            \/ squaredDistance(points[i], x, y) < squaredDistance(points[j], x, y)
            \/ (squaredDistance(points[i], x, y) = squaredDistance(points[j], x, y) /\ i <= j)

\* r = scaleFactor / 2 + n * (size * scaleFactor / 70 - scaleFactor / 2)
InterpolatedRadius(r, n, size, scaleFactor) ==
    r.num * 140 * n.den
        = r.den * (70 * scaleFactor * n.den
                   + n.num * (2 * size * scaleFactor - 70 * scaleFactor))

\* for each circle drawn, the first point nearest to it and its radius
NearestAndRadius(points) ==
    LET circles == Circles
    IN {<<Nearest(points, circles[k].x, circles[k].y), circles[k].r>> : k \in DOMAIN circles}

\* C21: for a point list that is not empty DotGridRenderer draws 900
\* circles, one per cell of the 30 x 30 grid; the radius of each is
\* minRadius + n * (maxRadius - minRadius) for n the normalizedElevation of
\* the first point of the list among those nearest to the cell, and a cell
\* nearest to a point of higher normalizedElevation has a strictly larger
\* radius than a cell nearest to a point of lower normalizedElevation
C21_DotGridRadius ==
    (render.pc = "rendered" /\ render.renderer = "DotGridRenderer" /\ Len(render.data) > 0)
    => LET points == canvasPoints(render.data)
           circles == Circles
           scaleFactor == OrElse(render.options.scaleFactor, 1)
           size == Least(render.options.width, render.options.height)
       IN /\ Len(circles) = 900
          /\ Cardinality({<<circles[k].x, circles[k].y>> : k \in DOMAIN circles}) = 900
          /\ \A p, q \in NearestAndRadius(points) :
                /\ InterpolatedRadius(p[2], Reduced(points[p[1]].normalizedElevation),
                                      size, scaleFactor)
                /\ Below(points[p[1]].normalizedElevation,
                         points[q[1]].normalizedElevation)
                   => Below(p[2], q[2])

\* C21 witness: a dot grid of two points at different elevations, with a
\* cell at the same distance from both and cells of different radius
C21_Witness ==
    /\ render.pc = "rendered"
    /\ render.renderer = "DotGridRenderer"
    /\ Len(render.data) = 2
    /\ LET points == canvasPoints(render.data)
           circles == Circles
       IN /\ Below(points[1].normalizedElevation, points[2].normalizedElevation)
          /\ \E k \in DOMAIN circles :
                squaredDistance(points[1], circles[k].x, circles[k].y)
                    = squaredDistance(points[2], circles[k].x, circles[k].y)
          /\ \E k, l \in DOMAIN circles :
                /\ Nearest(points, circles[k].x, circles[k].y) = 1
                /\ Nearest(points, circles[l].x, circles[l].y) = 2
                /\ Below(circles[k].r, circles[l].r)

\* C22: a render of an empty point list throws in none of the three
\* renderers, and the perspective renderer issues no drawing operation for it
C22_EmptyListTolerated ==
    (render.pc \in {"rendered", "threw"} /\ render.entry = "generateRelief"
        /\ Len(render.data) = 0)
    => /\ ~render.threw
       /\ render.renderer \in {"DotGridRenderer", "GraphRenderer", "PerspectiveRenderer"}
       /\ (render.renderer = "PerspectiveRenderer" => render.drawn = <<>>)

\* C22 witness: the perspective renderer has returned from a render of no
\* point
C22_Witness ==
    /\ render.pc = "rendered"
    /\ render.entry = "generateRelief"
    /\ render.renderer = "PerspectiveRenderer"
    /\ Len(render.data) = 0
    /\ render.drawn = <<>>

\* C24: a style that is none of dotgrid, graph and perspective is rendered by
\* the graph renderer when it is given to generateReliefFromCoordinate, which
\* passes the style "graph" on, and by the dot grid renderer when it is given
\* to generateRelief
C24_UnknownStyleByCallSite ==
    (render.pc \in {"rendered", "threw"} /\ render.renderer # ""
        /\ render.style \notin {"", "dotgrid", "graph", "perspective"})
    => IF render.entry = "generateReliefFromCoordinate"
       THEN render.options.style = "graph" /\ render.renderer = "GraphRenderer"
       ELSE render.renderer = "DotGridRenderer"

\* C24 witness: generateReliefFromCoordinate has rendered a relief whose
\* style name is not known
C24_Witness ==
    /\ render.pc = "rendered"
    /\ render.entry = "generateReliefFromCoordinate"
    /\ render.style = "sketch"
    /\ render.renderer = "GraphRenderer"

\* C30: for every point list that is not empty, a list of one point and a
\* list whose points share one x or one y included, the perspective renderer
\* puts every point in a cell whose row and column are whole numbers from 0
\* to gridSize - 1
C30_EveryPointBinned ==
    (render.pc \in {"rendered", "threw"} /\ render.renderer = "PerspectiveRenderer"
        /\ Len(render.data) > 0)
    => /\ ~render.threw
       /\ Len(render.cells) = Len(render.data)
       /\ \A i \in DOMAIN render.cells :
             /\ render.cells[i].gridX.valid
             /\ render.cells[i].gridY.valid
             /\ render.cells[i].gridX.index \in 0 .. setupCanvas(render.options).gridSize - 1
             /\ render.cells[i].gridY.index \in 0 .. setupCanvas(render.options).gridSize - 1

\* the positions in render.drawn of the operations named op of line i
OpsOf(name, i) ==
    {k \in DOMAIN render.drawn : render.drawn[k].op = name /\ render.drawn[k].line = i}

\* the contour lines that have strokes in render.drawn
DrawnLines == {render.drawn[k].line : k \in {l \in DOMAIN render.drawn : render.drawn[l].op = "strokes"}}

\* C29: in a perspective render the strokes of the contour lines come in
\* increasing order of line index, and every drawn line but the first drawn
\* one has its masking polygon filled once, before its own strokes and after
\* the strokes of every line drawn before it; the first drawn line has no
\* masking polygon
C29_MaskBeforeStrokes ==
    (render.pc = "rendered" /\ render.renderer = "PerspectiveRenderer")
    => /\ \A k, l \in DOMAIN render.drawn :
             (render.drawn[k].op = "strokes" /\ render.drawn[l].op = "strokes" /\ k < l)
             => render.drawn[k].line < render.drawn[l].line
       /\ \A i \in DrawnLines :
             IF \A j \in DrawnLines : i <= j
             THEN OpsOf("mask", i) = {}
             ELSE /\ Cardinality(OpsOf("mask", i)) = 1
                  /\ \A mask \in OpsOf("mask", i) :
                        /\ \A own \in OpsOf("strokes", i) : mask < own
                        /\ \A j \in DrawnLines : j < i
                              => \A earlier \in OpsOf("strokes", j) : earlier < mask
       /\ \A k \in DOMAIN render.drawn :
             render.drawn[k].op = "mask" => render.drawn[k].line \in DrawnLines

\* C29 witness: a perspective render that has drawn at least three contour
\* lines and has left some out
C29_Witness ==
    /\ render.pc = "rendered"
    /\ render.renderer = "PerspectiveRenderer"
    /\ Cardinality(DrawnLines) >= 3
    /\ \E i \in 0 .. 60 : i \notin DrawnLines /\ \E j \in DrawnLines : i < j
    /\ \E i \in DrawnLines : OpsOf("mask", i) # {}

KeySeq(cache) == [i \in DOMAIN cache |-> cache[i].key]

\* C25: a step leaves the keys of the tile cache and their order as they
\* are, or appends a key that was not present, and only in the second case
\* and only when the cache holds 1000 entries does an entry leave, which is
\* then the oldest one; so neither a cache hit nor the storing of a key
\* that is present removes or moves an entry
C25_EvictionOnlyForNewKey ==
    [][LET old == KeySeq(tileCache)
           new == KeySeq(tileCache')
       IN \/ new = old
          \/ \E k \in Keys(tileCache') \ Keys(tileCache) :
                \/ new = Append(old, k)
                \/ Len(old) = MAX_CACHE_SIZE /\ new = Append(Tail(old), k)]_vars

\* the calls that a step has suspended
Suspended == {c \in BagToSet(calls') : CopiesIn(c, calls') > CopiesIn(c, calls)}

\* C26: with either provider, a fetchElevation call for a tile that an
\* earlier successful call has put in the cache, and that is still there,
\* waits for no pacing delay and sends no provider request; it returns a
\* success with fromCache true at once (seen here when each tile that can be
\* asked for is in the cache)
C26_CachedTileServed ==
    [][started' = started + 1
       => /\ \A c \in Suspended : ~MapHas(tileCache, c.key)
          /\ (\A k \in FewKeys : MapHas(tileCache, k))
             => /\ Suspended = {}
                /\ otdRequests' = otdRequests
                /\ returned' = Returned("none", FALSE, Response("success", 1, FALSE, TRUE))]_vars

\* a step in which a fetchElevation call ends: it returns without an await,
\* or a call that was outstanding is gone
CallEnds ==
    \/ started' = started + 1 /\ Suspended = {}
    \/ BagCardinality(calls') < BagCardinality(calls)

\* C27: every fetchElevation call that ends, whatever failed (provider not
\* known, API key missing, network error, HTTP status not OK, body not in
\* the provider's format, cached tile that does not decode), ends by
\* returning a response whose status is success or error, never by
\* rejecting, and a response whose status is error has no data
C27_NeverRejects ==
    [][CallEnds
       => /\ returned'.resp.status \in {"success", "error"}
          /\ (returned'.resp.status = "error" => returned'.resp.dataLen = 0)]_vars

\* C27 witness: a call has returned an error for a body that is not in the
\* provider's format, after another call has stored a tile
C27_Witness ==
    /\ returned.http = "malformed"
    /\ returned.resp.status = "error"
    /\ returned.resp.dataLen = 0
    /\ tileCache # <<>>

\* C28: generateRandomRelief takes a candidate after its first one only when
\* validation has just rejected the one in hand; once generation has
\* started for a validated candidate it ends the run, with the result or
\* with the error generation raised, the error for too few elevation points
\* included, and the candidates tried stay as they are
C28_GenerationErrorEndsRun ==
    /\ [][(rand'.tried # rand.tried /\ rand.pc # "idle")
            => rand.pc = "validated" /\ ~rand.decision.isValid]_vars
    /\ [][(rand.pc = "generating" /\ rand' # rand)
            => /\ rand'.pc \in {"returned", "threw"}
               /\ rand'.tried = rand.tried
               /\ rand'.pc = "threw"
                    => rand'.error \in GenerationOutcomes \ {<<>>}]_vars
    /\ [][rand.pc \in {"returned", "threw"} => rand' = rand]_vars

\* C28 witness: after a rejected candidate the next one validated, and the
\* run ended with the error for too few elevation points
C28_Witness ==
    /\ rand.pc = "threw"
    /\ rand.rejected >= 1
    /\ rand.tried = rand.rejected + 1
    /\ rand.error = <<"Not", "enough", "elevation", "data", "points", "collected.">>
====
